---- MODULE Spec2Model ----
(***************************************************************************)
(* Scoring and ranking engine of the Developer DAO AI service:             *)
(* dao/ai-service/app/agents/bounty_matching_agent.py,                     *)
(* quality_assessment_agent.py and their schemas.                          *)
(* Real-valued scores are exact rationals <<numerator, denominator>>.      *)
(***************************************************************************)
EXTENDS Integers, Sequences, FiniteSets, TLC

VARIABLES skill, experience, availability, ranking, matching, confidence, analysis,
          documentation, agent

vars == <<skill, experience, availability, ranking, matching, confidence, analysis,
          documentation, agent>>

(***************************************************************************)
(* Exact rational arithmetic: a number is <<n, d>> with d > 0, in lowest   *)
(* terms, so that equal numbers are equal values.                          *)
(***************************************************************************)
Abs(x) == IF x < 0 THEN -x ELSE x

RECURSIVE GCD(_, _)
GCD(a, b) == IF b = 0 THEN a ELSE GCD(b, a % b)

Rat(n, d) ==
    LET s == IF d < 0 THEN -1 ELSE 1
        g == GCD(Abs(n), Abs(d))
    IN  <<(s * n) \div g, (s * d) \div g>>

Int2Rat(n) == <<n, 1>>
Zero == <<0, 1>>
One == <<1, 1>>

\* Sums, products and comparisons cancel common factors before they multiply.
RAdd(a, b) ==
    LET g == GCD(a[2], b[2])
    IN  Rat(a[1] * (b[2] \div g) + b[1] * (a[2] \div g), (a[2] \div g) * b[2])
RNeg(a) == <<0 - a[1], a[2]>>
RSub(a, b) == RAdd(a, RNeg(b))
RMul(a, b) ==
    LET g1 == GCD(Abs(a[1]), b[2])
        g2 == GCD(Abs(b[1]), a[2])
    IN  <<(a[1] \div g1) * (b[1] \div g2), (a[2] \div g2) * (b[2] \div g1)>>
\* a / b for b # 0.
RDiv(a, b) == RMul(a, IF b[1] < 0 THEN <<0 - b[2], 0 - b[1]>> ELSE <<b[2], b[1]>>)
RLe(a, b) ==
    LET g == GCD(a[2], b[2])
    IN  a[1] * (b[2] \div g) <= b[1] * (a[2] \div g)
RLt(a, b) ==
    LET g == GCD(a[2], b[2])
    IN  a[1] * (b[2] \div g) < b[1] * (a[2] \div g)
RGe(a, b) == RLe(b, a)
\* Python's max(a, b) and min(a, b) on numbers.
RMax(a, b) == IF RLt(a, b) THEN b ELSE a
RMin(a, b) == IF RLt(b, a) THEN b ELSE a
InUnit(a) == RLe(Zero, a) /\ RLe(a, One)

\* The value of a call that returned, and the outcome of one that raised.
Returned(v) == [raised |-> FALSE, value |-> v]
Raised(e) == [raised |-> TRUE, error |-> e]

\* Optional[...] values: None is the empty sequence, a present value v is <<v>>.
None == <<>>
Some(v) == <<v>>

(***************************************************************************)
(* SkillMatchingTool                                                       *)
(***************************************************************************)
\* Bound: the longest skill list drawn.
MaxSkills == 2

SkillLabels == {"React", "DeFi", "Python"}

\* The values the cosine similarity of two embeddings is drawn from: [-1, 1].
SimValues == {<<-1, 2>>, Zero, <<1, 2>>, One}

\* cosine_similarity over the embeddings of the labels: symmetric, and 1 for a
\* label with itself; any value of [-1, 1] for two different labels.
Similarities ==
    {s \in [SkillLabels \X SkillLabels -> SimValues] :
        \A a, b \in SkillLabels : /\ s[<<a, a>>] = One
                                  /\ s[<<a, b>>] = s[<<b, a>>]}

SkillLists == UNION {[1..n -> SkillLabels] : n \in 0..MaxSkills}

\* similarity_matrix = cosine_similarity(dev_embeddings, req_embeddings):
\* rows are developer skills, columns are required skills.
similarity_matrix(sim, developer_skills, required_skills) ==
    [i \in 1..Len(developer_skills) |->
        [j \in 1..Len(required_skills) |->
            sim[<<developer_skills[i], required_skills[j]>>]]]

\* np.max(m, axis=0)[j]: the maximum of column j over the rows 1..n.
RECURSIVE ColumnMax(_, _, _)
ColumnMax(m, j, n) ==
    IF n = 1 THEN m[1][j] ELSE RMax(ColumnMax(m, j, n - 1), m[n][j])

\* np.max(m, axis=1)[i]: the maximum of row i over the columns 1..n.
RECURSIVE RowMax(_, _, _)
RowMax(m, i, n) ==
    IF n = 1 THEN m[i][1] ELSE RMax(RowMax(m, i, n - 1), m[i][n])

RECURSIVE SeqSum(_, _)
SeqSum(xs, n) == IF n = 0 THEN Zero ELSE RAdd(SeqSum(xs, n - 1), xs[n])

\* np.mean of a non-empty vector.
Mean(xs) == RDiv(SeqSum(xs, Len(xs)), Int2Rat(Len(xs)))

\* A variant that takes the best match of each developer skill (axis=1)
\* instead of the best match of each required skill.
SkillMatchingTool_run_axis1(sim, developer_skills, required_skills) ==
    IF developer_skills = <<>> \/ required_skills = <<>>
    THEN Zero
    ELSE LET m == similarity_matrix(sim, developer_skills, required_skills)
             best_matches == [i \in 1..Len(developer_skills) |->
                                 RowMax(m, i, Len(required_skills))]
         IN  Mean(best_matches)

\* SkillMatchingTool._run
SkillMatchingTool_run(sim, developer_skills, required_skills) ==
    IF developer_skills = <<>> \/ required_skills = <<>>
    THEN Zero
    ELSE LET m == similarity_matrix(sim, developer_skills, required_skills)
             best_matches == [j \in 1..Len(required_skills) |->
                                 ColumnMax(m, j, Len(developer_skills))]
         IN  Mean(best_matches)

SkillInputs ==
    [sim : Similarities, developer_skills : SkillLists, required_skills : SkillLists]

SkillIdle ==
    [sim |-> [p \in SkillLabels \X SkillLabels |-> One],
     developer_skills |-> <<>>, required_skills |-> <<>>,
     done |-> FALSE, score |-> Zero]

\* One call of the skill scorer on the drawn inputs.
SkillRun ==
    /\ ~skill.done
    /\ skill' = [skill EXCEPT
                    !.done = TRUE,
                    !.score = SkillMatchingTool_run(skill.sim, skill.developer_skills,
                                                    skill.required_skills)]
    /\ UNCHANGED <<experience, availability, ranking,
                 matching, confidence, analysis, documentation, agent>>

(***************************************************************************)
(* ExperienceMatchingTool                                                  *)
(***************************************************************************)
\* A level label is a sequence of characters, so that str.lower() acts on it.
UpperChars == <<"A", "B", "C", "D", "E", "F", "G", "H", "I", "J", "K", "L", "M",
                "N", "O", "P", "Q", "R", "S", "T", "U", "V", "W", "X", "Y", "Z">>
LowerChars == <<"a", "b", "c", "d", "e", "f", "g", "h", "i", "j", "k", "l", "m",
                "n", "o", "p", "q", "r", "s", "t", "u", "v", "w", "x", "y", "z">>

LowerChar(c) ==
    IF \E i \in DOMAIN UpperChars : UpperChars[i] = c
    THEN LowerChars[CHOOSE i \in DOMAIN UpperChars : UpperChars[i] = c]
    ELSE c

\* str.lower()
Lower(s) == [i \in DOMAIN s |-> LowerChar(s[i])]

junior == <<"j", "u", "n", "i", "o", "r">>
mid == <<"m", "i", "d">>
senior == <<"s", "e", "n", "i", "o", "r">>
expert == <<"e", "x", "p", "e", "r", "t">>
easy == <<"e", "a", "s", "y">>
medium == <<"m", "e", "d", "i", "u", "m">>
hard == <<"h", "a", "r", "d">>

\* experience_levels.get(label, 2)
experience_levels(label) ==
    CASE label = junior -> 1
      [] label = mid -> 2
      [] label = senior -> 3
      [] label = expert -> 4
      [] OTHER -> 2

\* difficulty_levels.get(label, 2)
difficulty_levels(label) ==
    CASE label = easy -> 1
      [] label = medium -> 2
      [] label = hard -> 3
      [] label = expert -> 4
      [] OTHER -> 2

dev_level(developer_experience) == experience_levels(Lower(developer_experience))
bounty_level(bounty_difficulty) == difficulty_levels(Lower(bounty_difficulty))

\* A variant whose level gap is signed (no abs).
ExperienceMatchingTool_run_signed(developer_experience, bounty_difficulty, reputation_score) ==
    LET level_diff == dev_level(developer_experience) - bounty_level(bounty_difficulty)
        base_score == RMax(Zero, RSub(One, RMul(Int2Rat(level_diff), <<1, 4>>)))
        reputation_factor == RMin(One, RDiv(reputation_score, Int2Rat(10)))
    IN  RMul(base_score, RAdd(<<7, 10>>, RMul(<<3, 10>>, reputation_factor)))

\* A variant that charges 0.5 per level of mismatch.
ExperienceMatchingTool_run_halfstep(developer_experience, bounty_difficulty, reputation_score) ==
    LET level_diff == Abs(dev_level(developer_experience) - bounty_level(bounty_difficulty))
        base_score == RMax(Zero, RSub(One, RMul(Int2Rat(level_diff), <<1, 2>>)))
        reputation_factor == RMin(One, RDiv(reputation_score, Int2Rat(10)))
    IN  RMul(base_score, RAdd(<<7, 10>>, RMul(<<3, 10>>, reputation_factor)))

\* ExperienceMatchingTool._run
ExperienceMatchingTool_run(developer_experience, bounty_difficulty, reputation_score) ==
    LET level_diff == Abs(dev_level(developer_experience) - bounty_level(bounty_difficulty))
        base_score == RMax(Zero, RSub(One, RMul(Int2Rat(level_diff), <<1, 4>>)))
        reputation_factor == RMin(One, RDiv(reputation_score, Int2Rat(10)))
    IN  RMul(base_score, RAdd(<<7, 10>>, RMul(<<3, 10>>, reputation_factor)))

\* Bound: reputation scores are drawn in steps of 0.5 from 0 to MaxReputationHalves/2.
MaxReputationHalves == 24

Reputations == {Rat(k, 2) : k \in 0..MaxReputationHalves}

\* The labels drawn for a developer's experience_level: the four levels in
\* several spellings, a difficulty word, an unknown word and the empty string.
ExperienceLabels ==
    {junior, <<"J", "u", "n", "i", "o", "r">>, mid, <<"M", "I", "D">>, senior,
     <<"S", "E", "N", "I", "O", "R">>, expert, hard, <<"g", "u", "r", "u">>, <<>>}

\* The labels drawn for a bounty's difficulty_level.
DifficultyLabels ==
    {easy, <<"E", "a", "s", "y">>, medium, <<"M", "E", "D", "I", "U", "M">>, hard,
     <<"H", "a", "r", "d">>, expert, <<"E", "X", "P", "E", "R", "T">>, senior,
     <<"e", "p", "i", "c">>, <<>>}

ExperienceIdle ==
    [developer_experience |-> mid, bounty_difficulty |-> medium,
     reputation_score |-> Zero, done |-> FALSE, score |-> Zero]

\* One call of the experience scorer on the drawn inputs.
ExperienceRun ==
    /\ ~experience.done
    /\ experience' =
          [experience EXCEPT
              !.done = TRUE,
              !.score = ExperienceMatchingTool_run(experience.developer_experience,
                                                   experience.bounty_difficulty,
                                                   experience.reputation_score)]
    /\ UNCHANGED <<skill, availability, ranking,
                 matching, confidence, analysis, documentation, agent>>

(***************************************************************************)
(* AvailabilityMatchingTool                                                *)
(***************************************************************************)
\* Python truthiness of an Optional[int]: None and 0 are falsy.
Truthy(x) == x # None /\ x[1] # 0

\* Days assumed when the deadline cannot be processed.
DefaultDays == 30

\* The deadline string, by what processing it does: "naive" parses to a
\* datetime without offset, `days` days (timedelta.days, rounded down) after
\* utcnow(); "aware" parses to a datetime with an offset, from which the naive
\* utcnow() cannot be subtracted (TypeError); "malformed" does not parse
\* (ValueError). The bare except handles both errors.
days_until_deadline(deadline) ==
    IF deadline.kind = "naive" THEN deadline.days ELSE DefaultDays

weeks_available(deadline) == RMax(One, Rat(days_until_deadline(deadline), 7))

required_hours_per_week(estimated_hours, deadline) ==
    RDiv(Int2Rat(estimated_hours), weeks_available(deadline))

\* A workload factor without its floor of 0.1.
workload_factor_nofloor(active_bounties) ==
    RSub(One, RMul(Int2Rat(active_bounties), <<1, 5>>))

workload_factor(active_bounties) ==
    RMax(<<1, 10>>, RSub(One, RMul(Int2Rat(active_bounties), <<1, 5>>)))

available_hours_per_week(developer_hours, active_bounties) ==
    RMul(Int2Rat(developer_hours), workload_factor(active_bounties))

\* Lines 124-128: the score of the required against the available hours.
ScoreOfHours(required, available) ==
    IF required = Zero
    THEN Raised("ZeroDivisionError")
    ELSE IF RLe(required, available)
         THEN Returned(RMin(One, RDiv(available, required)))
         ELSE Returned(RMax(Zero, RDiv(available, required)))

\* Lines 116-128: both hours are numbers here.
AvailabilityScore(developer_hours, estimated_hours, deadline, active_bounties) ==
    ScoreOfHours(required_hours_per_week(estimated_hours, deadline),
                 available_hours_per_week(developer_hours, active_bounties))

\* A variant that treats only None as missing data (is None instead of not).
AvailabilityMatchingTool_run_isnone(developer_hours, estimated_hours, deadline, active_bounties) ==
    IF developer_hours = None \/ estimated_hours = None
    THEN Returned(<<1, 2>>)
    ELSE AvailabilityScore(developer_hours[1], estimated_hours[1], deadline, active_bounties)

\* A variant that needs both hours to be missing (and instead of or); arithmetic
\* on the one that is None raises TypeError.
AvailabilityMatchingTool_run_and(developer_hours, estimated_hours, deadline, active_bounties) ==
    IF ~Truthy(developer_hours) /\ ~Truthy(estimated_hours)
    THEN Returned(<<1, 2>>)
    ELSE IF developer_hours = None \/ estimated_hours = None
         THEN Raised("TypeError")
         ELSE AvailabilityScore(developer_hours[1], estimated_hours[1], deadline,
                                active_bounties)

\* AvailabilityMatchingTool._run
AvailabilityMatchingTool_run(developer_hours, estimated_hours, deadline, active_bounties) ==
    IF ~Truthy(developer_hours) \/ ~Truthy(estimated_hours)
    THEN Returned(<<1, 2>>)
    ELSE AvailabilityScore(developer_hours[1], estimated_hours[1], deadline, active_bounties)

\* Bounds of the inputs drawn.
MaxDeveloperHours == 4
MaxEstimatedHours == 6
MaxDays == 15
MaxPastDays == 2
MaxActive == 6

OptionalHours(n) == {None} \cup {Some(h) : h \in 0..n}

Deadlines ==
    [kind : {"naive", "aware"}, days : (0 - MaxPastDays)..MaxDays]
        \cup {[kind |-> "malformed", days |-> 0]}

AvailabilityIdle ==
    [developer_hours |-> None, estimated_hours |-> None,
     deadline |-> [kind |-> "malformed", days |-> 0], active_bounties |-> 0,
     done |-> FALSE, result |-> Returned(Zero)]

\* One call of the availability scorer on the drawn inputs.
AvailabilityRun ==
    /\ ~availability.done
    /\ availability' =
          [availability EXCEPT
              !.done = TRUE,
              !.result = AvailabilityMatchingTool_run(availability.developer_hours,
                                                      availability.estimated_hours,
                                                      availability.deadline,
                                                      availability.active_bounties)]
    /\ UNCHANGED <<skill, experience, ranking,
                 matching, confidence, analysis, documentation, agent>>

(***************************************************************************)
(* BountyMatchingAgent: one developer/bounty match                         *)
(***************************************************************************)
\* bounty.deadline.isoformat(): the deadline of a snapshot is a datetime, with
\* an offset ("aware") or without one ("naive"); its text always parses.
isoformat(deadline) == deadline

\* A variant whose reputation factor is not capped at 1.
calculate_success_probability_uncapped(developer, compatibility_score) ==
    RMin(One,
         RMul(compatibility_score,
              RAdd(RAdd(<<1, 2>>, RMul(<<3, 10>>, developer.success_rate)),
                   RMul(<<1, 5>>, RDiv(developer.reputation_score, Int2Rat(10))))))

\* BountyMatchingAgent._calculate_success_probability
calculate_success_probability(developer, compatibility_score) ==
    LET base_prob == compatibility_score
        success_factor == developer.success_rate
        reputation_factor == RMin(One, RDiv(developer.reputation_score, Int2Rat(10)))
        success_probability ==
            RMul(base_prob,
                 RAdd(RAdd(<<1, 2>>, RMul(<<3, 10>>, success_factor)),
                      RMul(<<1, 5>>, reputation_factor)))
    IN  RMin(One, success_probability)

\* A variant whose tiers exclude their threshold (> instead of >=).
determine_confidence_level_exclusive(compatibility_score, success_probability) ==
    LET avg_score == RDiv(RAdd(compatibility_score, success_probability), Int2Rat(2))
    IN  IF RLt(<<4, 5>>, avg_score) THEN "very_high"
        ELSE IF RLt(<<13, 20>>, avg_score) THEN "high"
        ELSE IF RLt(<<1, 2>>, avg_score) THEN "medium"
        ELSE "low"

\* BountyMatchingAgent._determine_confidence_level
determine_confidence_level(compatibility_score, success_probability) ==
    LET avg_score == RDiv(RAdd(compatibility_score, success_probability), Int2Rat(2))
    IN  IF RGe(avg_score, <<4, 5>>) THEN "very_high"
        ELSE IF RGe(avg_score, <<13, 20>>) THEN "high"
        ELSE IF RGe(avg_score, <<1, 2>>) THEN "medium"
        ELSE "low"

\* " ".join(parts)
RECURSIVE Join(_)
Join(parts) ==
    IF parts = <<>> THEN ""
    ELSE IF Len(parts) = 1 THEN parts[1]
    ELSE parts[1] \o " " \o Join(Tail(parts))

\* A variant whose bands exclude their lower edge (> instead of >=).
Fragment_exclusive(score, high, medium_text, low) ==
    IF RLt(<<4, 5>>, score) THEN high
    ELSE IF RLt(<<3, 5>>, score) THEN medium_text
    ELSE low

\* One explanation fragment: the template of the band the score falls in.
Fragment(score, high, medium_text, low) ==
    IF RGe(score, <<4, 5>>) THEN high
    ELSE IF RGe(score, <<3, 5>>) THEN medium_text
    ELSE low

\* BountyMatchingAgent._generate_explanation
generate_explanation(skill_score, experience_score, availability_score, compatibility_score) ==
    Join(<<Fragment(skill_score,
                    "Excellent skill match with strong expertise in required technologies.",
                    "Good skill alignment with most required technologies covered.",
                    "Partial skill match - may require additional learning or collaboration."),
           Fragment(experience_score,
                    "Experience level perfectly matches bounty difficulty.",
                    "Suitable experience level for this bounty complexity.",
                    "Experience level may not fully align with bounty requirements."),
           Fragment(availability_score,
                    "Excellent availability to meet project timeline.",
                    "Adequate availability with manageable timeline.",
                    "Limited availability may require timeline adjustments."),
           Fragment(compatibility_score,
                    "Highly recommended match with strong success potential.",
                    "Good match with reasonable success probability.",
                    "Consider alternative matches or provide additional support.")>>)

\* int(x) of a rational x >= 0.
IntOf(x) == x[1] \div x[2]

\* BountyMatchingAgent._estimate_timeline (the difficulty is compared as
\* written, without lower()).
estimate_timeline(bounty, developer) ==
    IF ~Truthy(bounty.estimated_hours) \/ ~Truthy(developer.availability_hours)
    THEN None
    ELSE LET weekly_hours == RMul(Int2Rat(developer.availability_hours[1]), <<4, 5>>)
             weeks_needed == RDiv(Int2Rat(bounty.estimated_hours[1]), weekly_hours)
             days_needed == IntOf(RMul(weeks_needed, Int2Rat(7)))
             buffered ==
                 IF bounty.difficulty_level = expert
                 THEN IntOf(RMul(Int2Rat(days_needed), <<13, 10>>))
                 ELSE IF bounty.difficulty_level = hard
                      THEN IntOf(RMul(Int2Rat(days_needed), <<6, 5>>))
                      ELSE days_needed
         IN  Some(IF buffered < 7 THEN 7 ELSE buffered)

\* The fields of BountyMatch declared Field(ge=0.0, le=1.0).
BoundedFields ==
    {"compatibility_score", "skill_match_score", "experience_match_score",
     "availability_match_score", "success_probability"}

\* BountyMatch(...): pydantic validates the bounded fields on construction.
BountyMatch(fields) ==
    IF \A f \in BoundedFields : InUnit(fields[f])
    THEN Returned(fields)
    ELSE Raised("ValidationError")

\* Lines 292-320: the match built from the scores of lines 280-290.
MatchOfScores(developer, bounty, skill_score, experience_score, availability_score, compatibility_score, success_probability) ==
    BountyMatch(
        [developer_address |-> developer.address,
         bounty_id |-> bounty.id,
         compatibility_score |-> compatibility_score,
         confidence_level |->
             determine_confidence_level(compatibility_score, success_probability),
         skill_match_score |-> skill_score,
         experience_match_score |-> experience_score,
         availability_match_score |-> availability_score,
         success_probability |-> success_probability,
         explanation |->
             generate_explanation(skill_score, experience_score, availability_score,
                                  compatibility_score),
         recommended_timeline |-> estimate_timeline(bounty, developer)])

\* Lines 285-290: the weighted sum of the three scores.
compatibility(skill_score, experience_score, availability_score) ==
    RAdd(RAdd(RMul(skill_score, <<2, 5>>), RMul(experience_score, <<3, 10>>)),
         RMul(availability_score, <<3, 10>>))

\* Lines 284-295: compatibility and success probability of the three scores.
MatchOfSubScores(developer, bounty, skill_score, experience_score, availability_score, compatibility_score) ==
    MatchOfScores(developer, bounty, skill_score, experience_score, availability_score,
                  compatibility_score,
                  calculate_success_probability(developer, compatibility_score))

\* Lines 280-320, given the results of the three tools; an error of the
\* availability tool ends the call.
MatchOfToolResults(developer, bounty, skill_score, experience_score, availability_result) ==
    IF availability_result.raised
    THEN availability_result
    ELSE MatchOfSubScores(developer, bounty, skill_score, experience_score,
                          availability_result.value,
                          compatibility(skill_score, experience_score,
                                        availability_result.value))

\* BountyMatchingAgent._calculate_match
calculate_match(sim, developer, bounty) ==
    MatchOfToolResults(
        developer, bounty,
        SkillMatchingTool_run(sim, developer.skills, bounty.required_skills),
        ExperienceMatchingTool_run(developer.experience_level, bounty.difficulty_level,
                                   developer.reputation_score),
        AvailabilityMatchingTool_run(developer.availability_hours, bounty.estimated_hours,
                                     isoformat(bounty.deadline),
                                     developer.completed_bounties))

(***************************************************************************)
(* BountyMatchingAgent: ranking and request routing                        *)
(***************************************************************************)
\* A slice that forgets the limit.
Slice_all(matches, limit) == matches

\* matches[:limit]
Slice(matches, limit) ==
    IF limit >= 0
    THEN SubSeq(matches, 1, IF limit < Len(matches) THEN limit ELSE Len(matches))
    ELSE SubSeq(matches, 1, IF Len(matches) + limit > 0 THEN Len(matches) + limit ELSE 0)

\* The place of one more match in a list sorted by descending score: behind
\* every match whose score is not smaller.
RECURSIVE InsertDescending(_, _)
InsertDescending(sorted, match) ==
    IF sorted = <<>>
    THEN <<match>>
    ELSE IF RLt(Head(sorted).compatibility_score, match.compatibility_score)
         THEN <<match>> \o sorted
         ELSE <<Head(sorted)>> \o InsertDescending(Tail(sorted), match)

RECURSIVE SortPrefix(_, _)
SortPrefix(matches, n) ==
    IF n = 0 THEN <<>> ELSE InsertDescending(SortPrefix(matches, n - 1), matches[n])

RECURSIVE InsertAscending(_, _)
InsertAscending(sorted, match) ==
    IF sorted = <<>>
    THEN <<match>>
    ELSE IF RLt(match.compatibility_score, Head(sorted).compatibility_score)
         THEN <<match>> \o sorted
         ELSE <<Head(sorted)>> \o InsertAscending(Tail(sorted), match)

RECURSIVE SortPrefixAscending(_, _)
SortPrefixAscending(matches, n) ==
    IF n = 0 THEN <<>>
    ELSE InsertAscending(SortPrefixAscending(matches, n - 1), matches[n])

Reverse(xs) == [i \in DOMAIN xs |-> xs[Len(xs) + 1 - i]]

\* A descending sort made of a stable ascending sort and a reversal.
sort_reverse_by_reversal(matches) ==
    Reverse(SortPrefixAscending(matches, Len(matches)))

\* matches.sort(key=lambda x: x.compatibility_score, reverse=True): the
\* stable sort of list.sort, which keeps the order of equal keys under reverse.
sort_reverse(matches) == SortPrefix(matches, Len(matches))

\* Lines 242-244 and 265-267: a match at or above min_score is kept; an error
\* of the scoring ends the loop.
AppendMatch(before, match, min_score) ==
    IF before.raised
    THEN before
    ELSE IF match.raised
         THEN match
         ELSE IF RGe(match.value.compatibility_score, min_score)
              THEN Returned(Append(before.value, match.value))
              ELSE before

\* The loops of lines 240-244 and 263-267 over the first n candidates.
RECURSIVE CollectMatches(_, _, _, _)
CollectMatches(sim, pairs, n, min_score) ==
    IF n = 0
    THEN Returned(<<>>)
    ELSE AppendMatch(CollectMatches(sim, pairs, n - 1, min_score),
                     calculate_match(sim, pairs[n].developer, pairs[n].bounty),
                     min_score)

\* Lines 249-252 and 272-275: the response of the sorted matches.
Truncated(matches, limit) ==
    Returned([matches |-> Slice(matches, limit), total_matches |-> Len(matches)])

\* Lines 246-252 and 269-275: sort, truncate, count.
SortAndTruncate(collected, limit) ==
    IF collected.raised
    THEN collected
    ELSE Truncated(sort_reverse(collected.value), limit)

\* BountyMatchingAgent._find_developers_for_bounty
find_developers_for_bounty(sim, bounty, developers, limit, min_score) ==
    SortAndTruncate(
        CollectMatches(sim,
                       [i \in DOMAIN developers |->
                           [developer |-> developers[i], bounty |-> bounty]],
                       Len(developers), min_score),
        limit)

\* BountyMatchingAgent._find_bounties_for_developer
find_bounties_for_developer(sim, developer, bounties, limit, min_score) ==
    SortAndTruncate(
        CollectMatches(sim,
                       [i \in DOMAIN bounties |->
                           [developer |-> developer, bounty |-> bounties[i]]],
                       Len(bounties), min_score),
        limit)

\* Lines 226-229: the response of a single match.
SingleMatch(match) ==
    IF match.raised
    THEN match
    ELSE Returned([matches |-> <<match.value>>, total_matches |-> 1])

\* BountyMatchingAgent._match_bounty_developer
match_bounty_developer(sim, bounty, developer) ==
    SingleMatch(calculate_match(sim, developer, bounty))

\* Python truthiness of an Optional[str]: None and "" are falsy.
TruthyStr(x) == x # None /\ x[1] # ""

\* The branch _process_request_internal takes (lines 205-215).
Route(request) ==
    IF Truthy(request.bounty_id) /\ TruthyStr(request.developer_address)
    THEN "_match_bounty_developer"
    ELSE IF Truthy(request.bounty_id)
         THEN "_find_developers_for_bounty"
         ELSE IF TruthyStr(request.developer_address)
              THEN "_find_bounties_for_developer"
              ELSE "ValueError"

\* Bounds of the ranking inputs: the longest candidate pool, and the largest
\* limit drawn besides the schema's maximum.
MaxPool == 3
MaxLimit == 3

\* BountyMatchRequest: limit has Field(ge=1, le=50), min_compatibility_score
\* has Field(ge=0.0, le=1.0).
LimitFloor == 1
LimitCeiling == 50

Limits == {l \in (1..MaxLimit) \cup {LimitCeiling} : LimitFloor <= l /\ l <= LimitCeiling}
MinScores == {Zero, <<1, 2>>, <<3, 4>>, One}

Requests ==
    [bounty_id : {None, Some(0), Some(7)},
     developer_address : {None, Some(""), Some("0xd9")},
     limit : Limits,
     min_compatibility_score : MinScores]

\* The similarity tables of the embedding model an agent may be set up with:
\* React/DeFi 0.5, React/Python 0, DeFi/Python any of the drawn values.
SimTable(defi_python) ==
    [p \in SkillLabels \X SkillLabels |->
        IF p[1] = p[2] THEN One
        ELSE IF {p[1], p[2]} = {"React", "DeFi"} THEN <<1, 2>>
        ELSE IF {p[1], p[2]} = {"React", "Python"} THEN Zero
        ELSE defi_python]

RankingSims == {SimTable(v) : v \in {<<-1, 2>>, <<1, 2>>}}

\* Developer snapshots the user service may return (the address is set by the
\* lookup).
DeveloperSnapshots ==
    {[skills |-> <<"React", "DeFi">>, experience_level |-> senior,
      reputation_score |-> <<17, 2>>, completed_bounties |-> 12,
      success_rate |-> <<23, 25>>, availability_hours |-> Some(30)],
     [skills |-> <<"Python">>, experience_level |-> junior,
      reputation_score |-> <<2, 1>>, completed_bounties |-> 0,
      success_rate |-> <<1, 2>>, availability_hours |-> None],
     [skills |-> <<"DeFi">>, experience_level |-> <<"M", "i", "d">>,
      reputation_score |-> <<10, 1>>, completed_bounties |-> 1,
      success_rate |-> One, availability_hours |-> Some(40)]}

\* Bounty snapshots the bounty service may return (the id is set by the lookup).
BountySnapshots ==
    {[required_skills |-> <<"React", "DeFi">>, difficulty_level |-> medium,
      estimated_hours |-> Some(120), deadline |-> [kind |-> "naive", days |-> 30]],
     [required_skills |-> <<"Python", "DeFi">>, difficulty_level |-> hard,
      estimated_hours |-> None, deadline |-> [kind |-> "aware", days |-> 10]],
     [required_skills |-> <<"DeFi">>, difficulty_level |-> easy,
      estimated_hours |-> Some(10), deadline |-> [kind |-> "naive", days |-> 3]]}

\* _get_developer_data(address)
get_developer_data(snapshot, address) ==
    [address |-> address, skills |-> snapshot.skills,
     experience_level |-> snapshot.experience_level,
     reputation_score |-> snapshot.reputation_score,
     completed_bounties |-> snapshot.completed_bounties,
     success_rate |-> snapshot.success_rate,
     availability_hours |-> snapshot.availability_hours]

\* _get_bounty_data(bounty_id)
get_bounty_data(snapshot, bounty_id) ==
    [id |-> bounty_id, required_skills |-> snapshot.required_skills,
     difficulty_level |-> snapshot.difficulty_level,
     estimated_hours |-> snapshot.estimated_hours,
     deadline |-> snapshot.deadline]

PoolAddresses == <<"0xd1", "0xd2", "0xd3", "0xd4", "0xd5">>

\* _get_available_developers(): a list of developers with distinct addresses.
DeveloperPools ==
    UNION {{[i \in 1..n |-> get_developer_data(snaps[i], PoolAddresses[i])] :
               snaps \in [1..n -> DeveloperSnapshots]} : n \in 0..MaxPool}

\* _get_available_bounties(): a list of bounties with distinct ids.
BountyPools ==
    UNION {{[i \in 1..n |-> get_bounty_data(snaps[i], i)] :
               snaps \in [1..n -> BountySnapshots]} : n \in 0..MaxPool}

RankingIdle == [pc |-> "idle", sim |-> [p \in SkillLabels \X SkillLabels |-> One]]

Handled(request, developers, bounties, result) ==
    [pc |-> "done", sim |-> ranking.sim, request |-> request, route |-> Route(request),
     developers |-> developers, bounties |-> bounties, result |-> result]

\* _process_request_internal on a request with both identifiers.
ProcessMatchBountyDeveloper ==
    /\ ranking.pc = "idle"
    /\ \E request \in Requests, b \in BountySnapshots, d \in DeveloperSnapshots :
          /\ Route(request) = "_match_bounty_developer"
          /\ LET bounty == get_bounty_data(b, request.bounty_id[1])
                 developer == get_developer_data(d, request.developer_address[1])
             IN  ranking' = Handled(request, <<developer>>, <<bounty>>,
                                    match_bounty_developer(ranking.sim, bounty, developer))
    /\ UNCHANGED <<skill, experience, availability,
                 matching, confidence, analysis, documentation, agent>>

\* _process_request_internal on a request routed to the developers of a bounty.
ProcessFindDevelopersForBounty ==
    /\ ranking.pc = "idle"
    /\ \E request \in Requests, b \in BountySnapshots, developers \in DeveloperPools :
          /\ Route(request) = "_find_developers_for_bounty"
          /\ LET bounty == get_bounty_data(b, request.bounty_id[1])
             IN  ranking' = Handled(request, developers, <<bounty>>,
                                    find_developers_for_bounty(
                                        ranking.sim, bounty, developers, request.limit,
                                        request.min_compatibility_score))
    /\ UNCHANGED <<skill, experience, availability,
                 matching, confidence, analysis, documentation, agent>>

\* _process_request_internal on a request routed to the bounties of a developer.
ProcessFindBountiesForDeveloper ==
    /\ ranking.pc = "idle"
    /\ \E request \in Requests, d \in DeveloperSnapshots, bounties \in BountyPools :
          /\ Route(request) = "_find_bounties_for_developer"
          /\ LET developer == get_developer_data(d, request.developer_address[1])
             IN  ranking' = Handled(request, <<developer>>, bounties,
                                    find_bounties_for_developer(
                                        ranking.sim, developer, bounties, request.limit,
                                        request.min_compatibility_score))
    /\ UNCHANGED <<skill, experience, availability,
                 matching, confidence, analysis, documentation, agent>>

\* _process_request_internal on a request it does not route: ValueError.
ProcessRejected ==
    /\ ranking.pc = "idle"
    /\ \E request \in Requests :
          /\ Route(request) = "ValueError"
          /\ ranking' = Handled(request, <<>>, <<>>, Raised("ValueError"))
    /\ UNCHANGED <<skill, experience, availability,
                 matching, confidence, analysis, documentation, agent>>

\* The request is answered; the agent takes the next one.
NextRequest ==
    /\ ranking.pc = "done"
    /\ ranking' = [pc |-> "idle", sim |-> ranking.sim]
    /\ UNCHANGED <<skill, experience, availability,
                 matching, confidence, analysis, documentation, agent>>


(***************************************************************************)
(* BountyMatchingAgent: inputs of one match and of its pure steps          *)
(***************************************************************************)
\* Steps of the grid the scores are drawn from.
GridSteps == 10

ScoreGrid == {Rat(k, GridSteps) : k \in 0..GridSteps}

\* Developer profiles and bounties one match is computed for.
MatchDevelopers ==
    [address : {"0xd1"},
     skills : {<<>>, <<"React">>, <<"Python">>, <<"React", "DeFi">>},
     experience_level : {junior, expert},
     reputation_score : {Zero, <<17, 2>>, Int2Rat(12)},
     completed_bounties : {0, 12},
     success_rate : {Zero, <<23, 25>>, One},
     availability_hours : {None, Some(30)}]

MatchBounties ==
    [id : {1},
     required_skills : {<<>>, <<"DeFi">>, <<"Python", "DeFi">>},
     difficulty_level : {easy, hard},
     estimated_hours : {Some(0), Some(120)},
     deadline : {[kind |-> "naive", days |-> 30], [kind |-> "aware", days |-> 3]}]

\* Reputation scores and success rates the success probability is drawn for.
TrackRecords == [success_rate : ScoreGrid, reputation_score : Reputations]

MatchingInputs ==
    [op : {"calculate_match"}, sim : RankingSims, developer : MatchDevelopers,
     bounty : MatchBounties, done : {FALSE}]
        \cup [op : {"success_probability"}, developer : TrackRecords,
              compatibility_score : ScoreGrid, done : {FALSE}]
        \cup [op : {"explanation"}, skill_score : ScoreGrid, experience_score : ScoreGrid,
              availability_score : ScoreGrid, compatibility_score : ScoreGrid,
              done : {FALSE}]

\* _calculate_match on the drawn developer and bounty.
CalculateMatch ==
    /\ matching.op = "calculate_match" /\ ~matching.done
    /\ matching' =
          [op |-> "calculate_match", sim |-> matching.sim,
           developer |-> matching.developer, bounty |-> matching.bounty, done |-> TRUE,
           result |-> calculate_match(matching.sim, matching.developer, matching.bounty)]
    /\ UNCHANGED <<skill, experience, availability, ranking, confidence, analysis,
                   documentation, agent>>

\* _calculate_success_probability on the drawn track record and score.
CalculateSuccessProbability ==
    /\ matching.op = "success_probability" /\ ~matching.done
    /\ matching' =
          [op |-> "success_probability", developer |-> matching.developer,
           compatibility_score |-> matching.compatibility_score, done |-> TRUE,
           result |-> calculate_success_probability(matching.developer,
                                                    matching.compatibility_score)]
    /\ UNCHANGED <<skill, experience, availability, ranking, confidence, analysis,
                   documentation, agent>>

\* _generate_explanation on the drawn scores.
GenerateExplanation ==
    /\ matching.op = "explanation" /\ ~matching.done
    /\ matching' =
          [op |-> "explanation", skill_score |-> matching.skill_score,
           experience_score |-> matching.experience_score,
           availability_score |-> matching.availability_score,
           compatibility_score |-> matching.compatibility_score, done |-> TRUE,
           result |-> generate_explanation(matching.skill_score,
                                           matching.experience_score,
                                           matching.availability_score,
                                           matching.compatibility_score)]
    /\ UNCHANGED <<skill, experience, availability, ranking, confidence, analysis,
                   documentation, agent>>

(***************************************************************************)
(* Confidence tiers of the two agents                                      *)
(***************************************************************************)
\* QualityAssessmentAgent._determine_confidence_level (metrics is read for
\* its overall_score only).
QualityAssessmentAgent_determine_confidence_level(metrics, file_count) ==
    LET score == metrics.overall_score
        depth_factor == IF file_count >= 10 THEN One
                        ELSE IF file_count >= 5 THEN <<9, 10>>
                        ELSE <<4, 5>>
        adjusted_score == RMul(score, depth_factor)
    IN  IF RGe(adjusted_score, Int2Rat(85)) THEN "very_high"
        ELSE IF RGe(adjusted_score, Int2Rat(70)) THEN "high"
        ELSE IF RGe(adjusted_score, Int2Rat(55)) THEN "medium"
        ELSE "low"

\* Bounds of the confidence inputs: steps of the overall scores drawn from
\* [0,100], and the largest file count.
QualitySteps == 20
MaxFiles == 11

\* Overall scores: a grid over [0,100] and the scores that the depth factors
\* 0.9 and 0.8 take exactly onto a threshold.
OverallScores ==
    {Rat(100 * k, QualitySteps) : k \in 0..QualitySteps}
        \cup {<<850, 9>>, <<700, 9>>, <<550, 9>>, <<175, 2>>, <<275, 4>>}

ConfidenceInputs ==
    [op : {"match"}, compatibility_score : ScoreGrid, success_probability : ScoreGrid,
     done : {FALSE}]
        \cup [op : {"quality"}, metrics : [overall_score : OverallScores],
              file_count : 0..MaxFiles, done : {FALSE}]

\* BountyMatchingAgent._determine_confidence_level on the drawn scores.
DetermineMatchConfidence ==
    /\ confidence.op = "match" /\ ~confidence.done
    /\ confidence' =
          [op |-> "match", compatibility_score |-> confidence.compatibility_score,
           success_probability |-> confidence.success_probability, done |-> TRUE,
           result |-> determine_confidence_level(confidence.compatibility_score,
                                                 confidence.success_probability)]
    /\ UNCHANGED <<skill, experience, availability, ranking, matching, analysis,
                   documentation, agent>>

\* QualityAssessmentAgent._determine_confidence_level on the drawn metrics.
DetermineQualityConfidence ==
    /\ confidence.op = "quality" /\ ~confidence.done
    /\ confidence' =
          [op |-> "quality", metrics |-> confidence.metrics,
           file_count |-> confidence.file_count, done |-> TRUE,
           result |-> QualityAssessmentAgent_determine_confidence_level(
                          confidence.metrics, confidence.file_count)]
    /\ UNCHANGED <<skill, experience, availability, ranking, matching, analysis,
                   documentation, agent>>

(***************************************************************************)
(* Text: a source text or README is a string; a line break is "\n"         *)
(***************************************************************************)
CharAt(text, i) == SubSeq(text, i, i)

\* text[i:].startswith(pattern), positions counted from 1
StartsAt(text, i, pattern) ==
    /\ i >= 1
    /\ i + Len(pattern) - 1 <= Len(text)
    /\ SubSeq(text, i, i + Len(pattern) - 1) = pattern

\* pattern in text
Contains(text, pattern) == \E i \in 1..(Len(text) - Len(pattern) + 1) : StartsAt(text, i, pattern)

\* text.count(char) for a single character
Count(text, char) == Cardinality({i \in 1..Len(text) : CharAt(text, i) = char})

\* len(text.split('\n'))
LineCount(text) == Count(text, "\n") + 1

\* text.lower(), character by character
RECURSIVE LowerStr(_)
LowerStr(text) ==
    IF Len(text) = 0 THEN ""
    ELSE IF Len(text) = 1 THEN LowerChar(text)
    ELSE LowerStr(SubSeq(text, 1, Len(text) \div 2))
             \o LowerStr(SubSeq(text, (Len(text) \div 2) + 1, Len(text)))

\* text * n
RECURSIVE Repeat(_, _)
Repeat(text, n) ==
    IF n = 0 THEN ""
    ELSE IF n % 2 = 1 THEN text \o Repeat(text, n - 1)
    ELSE Repeat(text \o text, n \div 2)

\* The positions at which the lines of text.split('\n') start; the last line
\* of a text ending in a line break starts behind the text.
LineStarts(text) == {1} \cup {i + 1 : i \in {j \in 1..Len(text) : CharAt(text, j) = "\n"}}

\* The position behind the line starting at p: its line break or the end.
LineEnd(text, p) ==
    CHOOSE e \in p..(Len(text) + 1) :
        /\ e = Len(text) + 1 \/ CharAt(text, e) = "\n"
        /\ \A x \in p..(e - 1) : CharAt(text, x) # "\n"

LineAt(text, p) == SubSeq(text, p, LineEnd(text, p) - 1)

\* The number (from 1) of the line starting at p.
LineNumber(text, p) == 1 + Cardinality({j \in 1..(p - 1) : CharAt(text, j) = "\n"})

Max(S) == CHOOSE m \in S : \A x \in S : x <= m
Min(S) == CHOOSE m \in S : \A x \in S : m <= x

\* Character classes of the patterns: \s, and the two quotes.
Whitespace == {" ", "\t", "\n", "\r", "\f"}
Quotes == {"\"", "'"}

AllWhitespace(text, from, to) == \A x \in from..to : CharAt(text, x) \in Whitespace

(***************************************************************************)
(* CodeAnalysisTool: Python path                                           *)
(***************************************************************************)
\* ast.parse on the fragment of Python the drawn texts are written in: one
\* simple or one-line compound statement per line. For each line, how the
\* parser takes it and the nodes ast.walk finds in it.
PythonLine(line) ==
    IF line = "" \/ line = "# note"
    THEN [kind |-> "skip", nodes |-> <<>>]
    ELSE IF line = "x = eval(s)" THEN [kind |-> "statement", nodes |-> <<"Assign", "Call">>]
    ELSE IF line = "exec(c)" THEN [kind |-> "statement", nodes |-> <<"Expr", "Call">>]
    ELSE IF line = "if a and b: pass"
    THEN [kind |-> "statement", nodes |-> <<"If", "BoolOp", "And", "Pass">>]
    ELSE IF line = "while a or b: pass"
    THEN [kind |-> "statement", nodes |-> <<"While", "BoolOp", "Or", "Pass">>]
    ELSE IF line = "try: pass" THEN [kind |-> "try", nodes |-> <<"Try", "Pass">>]
    ELSE IF line = "except E: pass"
    THEN [kind |-> "except", nodes |-> <<"ExceptHandler", "Pass">>]
    ELSE IF line = "key = \"k1\"" THEN [kind |-> "statement", nodes |-> <<"Assign", "Constant">>]
    ELSE IF line = "db.execute(\"q %s\" % v)"
    THEN [kind |-> "statement", nodes |-> <<"Expr", "Call", "BinOp">>]
    ELSE [kind |-> "invalid", nodes |-> <<>>]

\* raise SyntaxError(msg) at a line; str(e) is the message with the place.
SyntaxError(msg, lineno) ==
    [raised |-> TRUE, error |-> "SyntaxError", lineno |-> lineno,
     str |-> msg \o " (<unknown>, line " \o ToString(lineno) \o ")"]

\* The statement before the line at p, comments and blank lines skipped.
PreviousKind(line, significant, p) ==
    IF {q \in significant : q < p} = {}
    THEN "none"
    ELSE line[Max({q \in significant : q < p})].kind

\* The line at p cannot follow what precedes it: anything but a handler
\* after try, a handler without try, or a line that is no statement.
Unexpected(line, significant, p) ==
    IF PreviousKind(line, significant, p) = "try"
    THEN line[p].kind # "except"
    ELSE \/ line[p].kind = "invalid"
         \/ line[p].kind = "except" /\ PreviousKind(line, significant, p) # "except"

\* The message for a line that is no statement: a line of opening braces
\* only is an unclosed bracket.
InvalidMessage(text) ==
    IF Len(text) > 0 /\ Count(text, "{") = Len(text)
    THEN "'{' was never closed"
    ELSE "invalid syntax"

\* The error of the first unexpected line.
FirstError(code, line, significant, p) ==
    SyntaxError(IF PreviousKind(line, significant, p) = "try"
                THEN "expected 'except' or 'finally' block"
                ELSE IF line[p].kind = "invalid"
                THEN InvalidMessage(LineAt(code, p))
                ELSE "invalid syntax",
                LineNumber(code, p))

\* The outcome of parsing, given the lines and those that are statements: the
\* first error, or the error of a try without handler at the end of the text,
\* or the tree (the nodes of each statement).
ParseOfLines(code, line, significant, errors) ==
    IF errors # {}
    THEN FirstError(code, line, significant, Min(errors))
    ELSE IF significant # {} /\ line[Max(significant)].kind = "try"
    THEN SyntaxError("expected 'except' or 'finally' block",
                     IF LineAt(code, Max(DOMAIN line)) = ""
                     THEN LineCount(code) - 1
                     ELSE LineCount(code))
    ELSE Returned([p \in significant |-> line[p].nodes])

ParseOfStatements(code, line, significant) ==
    ParseOfLines(code, line, significant,
                 {p \in significant : Unexpected(line, significant, p)})

ParseOfKinds(code, line) ==
    ParseOfStatements(code, line, {p \in DOMAIN line : line[p].kind # "skip"})

\* ast.parse(code)
ast_parse(code) ==
    ParseOfKinds(code, [p \in LineStarts(code) |-> PythonLine(LineAt(code, p))])

\* The node types _calculate_complexity counts.
BranchingNodes == {"If", "While", "For", "AsyncFor", "ExceptHandler", "And", "Or"}

\* The nodes of a tree, as (statement, place in the statement).
Walk(tree) == UNION {{<<p, i>> : i \in DOMAIN tree[p]} : p \in DOMAIN tree}

\* CodeAnalysisTool._calculate_complexity
calculate_complexity(tree) ==
    RMin(Int2Rat(10),
         Rat(1 + Cardinality({n \in Walk(tree) : tree[n[1]][n[2]] \in BranchingNodes}), 5))

\* re.search(r'execute\s*\(\s*["\'].*%.*["\']', code): "." matches anything
\* but a line break.
SqlInjectionPattern(code) ==
    \E i \in 1..Len(code) :
        /\ StartsAt(code, i, "execute")
        /\ \E j \in (i + 7)..Len(code) :
              /\ CharAt(code, j) = "("
              /\ AllWhitespace(code, i + 7, j - 1)
              /\ \E k \in (j + 1)..Len(code) :
                    /\ CharAt(code, k) \in Quotes
                    /\ AllWhitespace(code, j + 1, k - 1)
                    /\ \E p \in (k + 1)..Len(code) :
                          /\ CharAt(code, p) = "%"
                          /\ \E q \in (p + 1)..Len(code) :
                                /\ CharAt(code, q) \in Quotes
                                /\ \A x \in (k + 1)..(q - 1) : CharAt(code, x) # "\n"

SecretWords == {"password", "secret", "key", "token"}

\* re.search(r'(password|secret|key|token)\s*=\s*["\'][^"\']+["\']', code,
\* re.IGNORECASE)
HardcodedSecretPattern(code) ==
    \E w \in SecretWords : \E i \in 1..(Len(code) - Len(w) + 1) :
        /\ LowerStr(SubSeq(code, i, i + Len(w) - 1)) = w
        /\ \E j \in (i + Len(w))..Len(code) :
              /\ CharAt(code, j) = "="
              /\ AllWhitespace(code, i + Len(w), j - 1)
              /\ \E k \in (j + 1)..Len(code) :
                    /\ CharAt(code, k) \in Quotes
                    /\ AllWhitespace(code, j + 1, k - 1)
                    /\ \E q \in (k + 2)..Len(code) :
                          /\ CharAt(code, q) \in Quotes
                          /\ \A x \in (k + 1)..(q - 1) : CharAt(code, x) \notin Quotes

\* An entry of an issue list.
Issue(type, severity, description, suggestion) ==
    [type |-> type, severity |-> severity, description |-> description,
     suggestion |-> suggestion]

\* issues.append(issue) under a condition
When(condition, issue) == IF condition THEN <<issue>> ELSE <<>>

\* len([i for i in issues if i["type"] == type])
CountType(issues, type) == Cardinality({i \in DOMAIN issues : issues[i].type = type})

\* Lines 63-95: the pattern checks of parsed Python code.
PythonChecks(code) ==
    When(Contains(code, "eval("),
         Issue("security", "high", "Use of eval() function detected - security risk",
               "Use safer alternatives like ast.literal_eval()"))
        \o When(Contains(code, "exec("),
                Issue("security", "high", "Use of exec() function detected - security risk",
                      "Avoid dynamic code execution"))
        \o When(SqlInjectionPattern(code),
                Issue("security", "critical", "Potential SQL injection vulnerability",
                      "Use parameterized queries"))
        \o When(HardcodedSecretPattern(code),
                Issue("security", "medium", "Potential hardcoded secret detected",
                      "Use environment variables or secure vaults"))

\* A variant that reports every parse failure at line 1.
SyntaxIssue_first_line(e) ==
    [type |-> "syntax", severity |-> "critical",
     description |-> "Syntax error: " \o e.str, line_number |-> 1,
     suggestion |-> "Fix syntax errors before deployment"]

\* Lines 97-105: the issue of a parse failure.
SyntaxIssue(e) ==
    [type |-> "syntax", severity |-> "critical",
     description |-> "Syntax error: " \o e.str, line_number |-> e.lineno,
     suggestion |-> "Fix syntax errors before deployment"]

\* Lines 107-116: the result of the Python path.
PythonResult(code, complexity, issues) ==
    [complexity_score |-> complexity, issues |-> issues,
     metrics |-> [lines_of_code |-> LineCount(code),
                  security_issues |-> CountType(issues, "security"),
                  style_issues |-> 0, performance_issues |-> 0]]

\* Lines 57-116, given the outcome of ast.parse: a SyntaxError leaves the try
\* block before the pattern checks.
PythonAnalysisOf(code, parsed) ==
    IF parsed.raised
    THEN PythonResult(code, Int2Rat(10), <<SyntaxIssue(parsed)>>)
    ELSE PythonResult(code, calculate_complexity(parsed.value), PythonChecks(code))

\* CodeAnalysisTool._analyze_python_code
analyze_python_code(code) == PythonAnalysisOf(code, ast_parse(code))

(***************************************************************************)
(* CodeAnalysisTool: the other paths and the dispatch                      *)
(***************************************************************************)
\* re.search(r'\.call\s*\(', code)
LowLevelCallPattern(code) ==
    \E i \in 1..Len(code) :
        /\ StartsAt(code, i, ".call")
        /\ \E j \in (i + 5)..Len(code) :
              CharAt(code, j) = "(" /\ AllWhitespace(code, i + 5, j - 1)

\* re.search(r'pragma solidity \^0\.[0-7]', code)
OldPragmaPattern(code) ==
    \E i \in 1..Len(code) :
        /\ StartsAt(code, i, "pragma solidity ^0.")
        /\ i + 19 <= Len(code)
        /\ CharAt(code, i + 19) \in {"0", "1", "2", "3", "4", "5", "6", "7"}

\* Lines 122-155: the pattern checks of Solidity code.
SolidityChecks(code) ==
    When(Contains(code, "tx.origin"),
         Issue("security", "high", "Use of tx.origin detected - authentication bypass risk",
               "Use msg.sender instead of tx.origin"))
        \o When(LowLevelCallPattern(code),
                Issue("security", "medium", "Low-level call detected - reentrancy risk",
                      "Use checks-effects-interactions pattern"))
        \o When(Contains(code, "block.timestamp") /\ Contains(code, "now"),
                Issue("security", "low", "Timestamp dependence detected",
                      "Avoid relying on block.timestamp for critical logic"))
        \o When(OldPragmaPattern(code)
                    /\ \E op \in {"+", "-", "*", "/"} : Contains(code, op),
                Issue("security", "medium", "Potential integer overflow/underflow",
                      "Use SafeMath library or upgrade to Solidity 0.8+"))

\* Lines 157-166 and 198-207: the result of a path that counts its issues.
CountedResult(code, complexity, issues, style_issues) ==
    [complexity_score |-> complexity, issues |-> issues,
     metrics |-> [lines_of_code |-> LineCount(code),
                  security_issues |-> CountType(issues, "security"),
                  style_issues |-> style_issues, performance_issues |-> 0]]

\* CodeAnalysisTool._analyze_solidity_code
analyze_solidity_code(code) ==
    CountedResult(code, RMin(Int2Rat(10), Rat(LineCount(code), 50)), SolidityChecks(code), 0)

\* Lines 173-196: the pattern checks of JavaScript/TypeScript code.
JavascriptChecks(code) ==
    When(Contains(code, "eval("),
         Issue("security", "high", "Use of eval() detected - XSS risk",
               "Use JSON.parse() or safer alternatives"))
        \o When(Contains(code, "innerHTML"),
                Issue("security", "medium", "Use of innerHTML detected - XSS risk",
                      "Use textContent or sanitize input"))
        \o When(Contains(code, "console.log"),
                Issue("style", "low", "Console.log statements found",
                      "Remove debug statements before production"))

JavascriptResult(code, issues) ==
    CountedResult(code, RMin(Int2Rat(10), Rat(Count(code, "{"), 10)), issues,
                  CountType(issues, "style"))

\* CodeAnalysisTool._analyze_javascript_code
analyze_javascript_code(code) == JavascriptResult(code, JavascriptChecks(code))

\* Lines of a file from which the generic path calls it very large.
LargeFileLines == 1000

\* CodeAnalysisTool._analyze_generic_code
analyze_generic_code(code) ==
    [complexity_score |-> RMin(Int2Rat(10), Rat(LineCount(code), 100)),
     issues |-> When(LineCount(code) > LargeFileLines,
                     Issue("maintainability", "medium", "Very large file detected",
                           "Consider breaking into smaller modules")),
     metrics |-> [lines_of_code |-> LineCount(code), security_issues |-> 0,
                  style_issues |-> 0, performance_issues |-> 0]]

\* A dispatch that compares the tag as written (without lower()).
CodeAnalysisTool_run_exact(code, language) ==
    IF language = "python" THEN analyze_python_code(code)
    ELSE IF language \in {"javascript", "typescript"} THEN analyze_javascript_code(code)
    ELSE IF language = "solidity" THEN analyze_solidity_code(code)
    ELSE analyze_generic_code(code)

\* CodeAnalysisTool._run
CodeAnalysisTool_run(code, language) ==
    IF LowerStr(language) = "python" THEN analyze_python_code(code)
    ELSE IF LowerStr(language) \in {"javascript", "typescript"}
    THEN analyze_javascript_code(code)
    ELSE IF LowerStr(language) = "solidity" THEN analyze_solidity_code(code)
    ELSE analyze_generic_code(code)

(***************************************************************************)
(* DocumentationAnalysisTool                                               *)
(***************************************************************************)
\* line.strip()
Strip(line) ==
    IF AllWhitespace(line, 1, Len(line))
    THEN ""
    ELSE SubSeq(line,
                Min({i \in 1..Len(line) : CharAt(line, i) \notin Whitespace}),
                Max({i \in 1..Len(line) : CharAt(line, i) \notin Whitespace}))

\* Lines 290-298: how one line is counted.
LineClass(line) ==
    IF Strip(line) = "" THEN "blank"
    ELSE IF \/ StartsAt(Strip(line), 1, "#")
            \/ StartsAt(Strip(line), 1, "//")
            \/ StartsAt(Strip(line), 1, "/*")
    THEN "comment"
    ELSE IF Contains(Strip(line), "\"\"\"") \/ Contains(Strip(line), "'''")
    THEN "comment"
    ELSE "code"

\* The number of lines of a class, the lines given by their start.
LinesOfClass(code, starts, class) ==
    Cardinality({p \in starts : LineClass(LineAt(code, p)) = class})

\* Lines 300-302: the ratio of the two counts.
RatioOfCounts(comment_lines, code_lines) ==
    IF code_lines = 0
    THEN Zero
    ELSE Rat(comment_lines, comment_lines + code_lines)

\* DocumentationAnalysisTool._calculate_comment_ratio
calculate_comment_ratio(code) ==
    RatioOfCounts(LinesOfClass(code, LineStarts(code), "comment"),
                  LinesOfClass(code, LineStarts(code), "code"))

\* Length above which a README earns the award for substantial content.
SubstantialLength == 500

\* score += award under a condition
Award(condition, award) == IF condition THEN award ELSE 0

\* Lines 309-328, on the lowered README.
ReadmeAwards(readme, readme_lower) ==
    Award(Contains(readme_lower, "installation") \/ Contains(readme_lower, "setup"), 20)
        + Award(Contains(readme_lower, "usage") \/ Contains(readme_lower, "example"), 20)
        + Award(Contains(readme_lower, "api") \/ Contains(readme_lower, "documentation"), 15)
        + Award(Contains(readme_lower, "contributing"), 10)
        + Award(Contains(readme_lower, "license"), 10)
        + Award(Contains(readme_lower, "test"), 10)
        + Award(Len(readme) > SubstantialLength, 15)

\* A README analysis that awards every keyword found, not every group.
analyze_readme_per_keyword(readme) ==
    IF readme = "" THEN 0
    ELSE LET found(keyword, award) == Award(Contains(LowerStr(readme), keyword), award)
             score == found("installation", 20) + found("setup", 20) + found("usage", 20)
                          + found("example", 20) + found("api", 15)
                          + found("documentation", 15) + found("contributing", 10)
                          + found("license", 10) + found("test", 10)
                          + Award(Len(readme) > SubstantialLength, 15)
         IN  IF score > 100 THEN 100 ELSE score

\* DocumentationAnalysisTool._analyze_readme
analyze_readme(readme) ==
    IF readme = "" THEN 0
    ELSE IF ReadmeAwards(readme, LowerStr(readme)) > 100 THEN 100
    ELSE ReadmeAwards(readme, LowerStr(readme))

\* A documentation score that is not capped at 100.
DocumentationResult_uncapped(comment_ratio, readme_score) ==
    [documentation_score |->
         RAdd(RMul(comment_ratio, Int2Rat(50)), RMul(Int2Rat(readme_score), Int2Rat(50))),
     comment_ratio |-> comment_ratio,
     readme_score |-> readme_score,
     issues |-> When(RLt(comment_ratio, <<1, 10>>),
                     Issue("documentation", "medium", "Low comment ratio detected",
                           "Add more inline comments and docstrings"))]

\* A documentation score that takes the README score as a share of 100.
DocumentationResult_share(comment_ratio, readme_score) ==
    [documentation_score |->
         RMin(Int2Rat(100),
              RAdd(RMul(comment_ratio, Int2Rat(50)), RMul(Rat(readme_score, 100), Int2Rat(50)))),
     comment_ratio |-> comment_ratio,
     readme_score |-> readme_score,
     issues |-> When(RLt(comment_ratio, <<1, 10>>),
                     Issue("documentation", "medium", "Low comment ratio detected",
                           "Add more inline comments and docstrings"))]

\* Lines 262-281, given the comment ratio and the README score.
DocumentationResult(comment_ratio, readme_score) ==
    [documentation_score |->
         RMin(Int2Rat(100),
              RAdd(RMul(comment_ratio, Int2Rat(50)), RMul(Int2Rat(readme_score), Int2Rat(50)))),
     comment_ratio |-> comment_ratio,
     readme_score |-> readme_score,
     issues |-> When(RLt(comment_ratio, <<1, 10>>),
                     Issue("documentation", "medium", "Low comment ratio detected",
                           "Add more inline comments and docstrings"))]

\* DocumentationAnalysisTool._run
DocumentationAnalysisTool_run(code, readme_content) ==
    DocumentationResult(calculate_comment_ratio(code), analyze_readme(readme_content))

(***************************************************************************)
(* QualityAssessmentAgent: assessment of a code content                    *)
(***************************************************************************)
\* The fields of CodeQualityMetrics, all declared Field(ge=0.0, le=100.0).
MetricFields ==
    {"overall_score", "security_score", "performance_score", "maintainability_score",
     "documentation_score", "test_coverage_score"}

\* CodeQualityMetrics(...): pydantic validates the fields on construction.
CodeQualityMetrics(fields) ==
    IF \A f \in MetricFields : RLe(Zero, fields[f]) /\ RLe(fields[f], Int2Rat(100))
    THEN Returned(fields)
    ELSE Raised("ValidationError")

\* Lines 508-515: the weighted average of the five scores.
OverallScore(security, performance, maintainability, documentation_score, test_coverage) ==
    RAdd(RAdd(RAdd(RAdd(RMul(security, <<1, 4>>), RMul(performance, <<1, 5>>)),
                   RMul(maintainability, <<1, 5>>)),
              RMul(documentation_score, <<1, 5>>)),
         RMul(test_coverage, <<3, 20>>))

\* Lines 508-524, given the five scores.
MetricsOfScores(security, performance, maintainability, documentation_score, test_coverage) ==
    CodeQualityMetrics(
        [overall_score |-> OverallScore(security, performance, maintainability,
                                        documentation_score, test_coverage),
         security_score |-> security,
         performance_score |-> performance,
         maintainability_score |-> maintainability,
         documentation_score |-> documentation_score,
         test_coverage_score |-> test_coverage])

\* The estimate that stands for the test coverage score.
DefaultTestCoverage == 70

\* Quality metrics whose scores are not floored at 0.
calculate_quality_metrics_unfloored(code_analysis, doc_analysis) ==
    MetricsOfScores(
        Int2Rat(100 - code_analysis.metrics.security_issues * 20),
        RSub(Int2Rat(100), RMul(code_analysis.complexity_score, Int2Rat(10))),
        RSub(RSub(Int2Rat(100), RMul(code_analysis.complexity_score, Int2Rat(8))),
             Int2Rat(code_analysis.metrics.style_issues * 5)),
        doc_analysis.documentation_score,
        Int2Rat(DefaultTestCoverage))

\* QualityAssessmentAgent._calculate_quality_metrics
calculate_quality_metrics(code_analysis, doc_analysis) ==
    MetricsOfScores(
        RMax(Zero, Int2Rat(100 - code_analysis.metrics.security_issues * 20)),
        RMax(Zero, RSub(Int2Rat(100), RMul(code_analysis.complexity_score, Int2Rat(10)))),
        RMax(Zero, RSub(RSub(Int2Rat(100), RMul(code_analysis.complexity_score, Int2Rat(8))),
                        Int2Rat(code_analysis.metrics.style_issues * 5))),
        doc_analysis.documentation_score,
        Int2Rat(DefaultTestCoverage))

\* QualityIssue(...) of an entry of an issue list; a key the entry lacks
\* reads as None.
QualityIssue(issue) ==
    [type |-> issue.type, severity |-> issue.severity,
     description |-> issue.description,
     file_path |-> None,
     line_number |-> IF "line_number" \in DOMAIN issue THEN Some(issue.line_number) ELSE None,
     suggestion |-> Some(issue.suggestion)]

\* QualityAssessmentAgent._compile_issues
compile_issues(code_analysis, doc_analysis) ==
    [i \in DOMAIN code_analysis.issues |-> QualityIssue(code_analysis.issues[i])]
        \o [i \in DOMAIN doc_analysis.issues |->
               [QualityIssue(doc_analysis.issues[i]) EXCEPT !.line_number = None]]

\* QualityAssessmentAgent._generate_suggestions
generate_suggestions(metrics, issues) ==
    When(RLt(metrics.security_score, Int2Rat(80)),
         "Implement comprehensive security review and address all security vulnerabilities")
        \o When(RLt(metrics.performance_score, Int2Rat(70)),
                "Optimize code complexity and consider performance improvements")
        \o When(RLt(metrics.documentation_score, Int2Rat(60)),
                "Improve documentation with better README, API docs, and inline comments")
        \o When(RLt(metrics.test_coverage_score, Int2Rat(80)),
                "Increase test coverage with unit tests, integration tests, and edge cases")
        \o When(\E i \in DOMAIN issues : issues[i].severity = "critical",
                "Address all critical issues before deployment")

\* len([i for i in issues if i.severity == severity])
CountSeverity(issues, severity) ==
    Cardinality({i \in DOMAIN issues : issues[i].severity = severity})

\* QualityAssessmentAgent._generate_analysis_summary
generate_analysis_summary(metrics, issues) ==
    Join(<<IF RGe(metrics.overall_score, Int2Rat(85))
           THEN "Excellent code quality with strong adherence to best practices."
           ELSE IF RGe(metrics.overall_score, Int2Rat(70))
           THEN "Good code quality with minor areas for improvement."
           ELSE IF RGe(metrics.overall_score, Int2Rat(55))
           THEN "Acceptable code quality but requires attention to several areas."
           ELSE "Code quality needs significant improvement before production use.">>
         \o When(RLt(metrics.security_score, Int2Rat(70)),
                 "Security concerns require immediate attention.")
         \o When(RLt(metrics.documentation_score, Int2Rat(60)),
                 "Documentation needs substantial improvement.")
         \o When(CountSeverity(issues, "critical") > 0,
                 ToString(CountSeverity(issues, "critical"))
                     \o " critical issue(s) must be resolved.")
         \o When(CountSeverity(issues, "high") > 0,
                 ToString(CountSeverity(issues, "high"))
                     \o " high-priority issue(s) should be addressed."))

\* Lines 468-486, given the two analyses and the metrics.
AssessmentOfMetrics(metrics, issues, include_suggestions, file_count) ==
    Returned([metrics |-> metrics,
              issues |-> issues,
              suggestions |-> IF include_suggestions
                              THEN generate_suggestions(metrics, issues)
                              ELSE <<>>,
              confidence_level |->
                  QualityAssessmentAgent_determine_confidence_level(metrics, file_count),
              analysis_summary |-> generate_analysis_summary(metrics, issues)])

\* Lines 465-486: a validation error of the metrics ends the call.
AssessmentOfAnalyses(code_analysis, doc_analysis, metrics, include_suggestions) ==
    IF metrics.raised
    THEN metrics
    ELSE AssessmentOfMetrics(metrics.value, compile_issues(code_analysis, doc_analysis),
                             include_suggestions, 1)

AssessmentOf(code_analysis, doc_analysis, include_suggestions) ==
    AssessmentOfAnalyses(code_analysis, doc_analysis,
                         calculate_quality_metrics(code_analysis, doc_analysis),
                         include_suggestions)

\* QualityAssessmentAgent._assess_code_quality
assess_code_quality(code_content, language, include_suggestions) ==
    AssessmentOf(CodeAnalysisTool_run(code_content, language),
                 DocumentationAnalysisTool_run(code_content, ""),
                 include_suggestions)

(***************************************************************************)
(* QualityAssessmentAgent: assessment of a repository                      *)
(***************************************************************************)
\* filename.endswith(ext)
EndsWith(text, suffix) ==
    /\ Len(text) >= Len(suffix)
    /\ SubSeq(text, Len(text) - Len(suffix) + 1, Len(text)) = suffix

CodeExtensions == {".py", ".js", ".ts", ".sol", ".go", ".rs", ".java", ".cpp", ".c"}

\* QualityAssessmentAgent._is_code_file
is_code_file(filename) == \E ext \in CodeExtensions : EndsWith(filename, ext)

\* Lines 662-664: the totals before the loop.
NoFileAnalyzed ==
    [issues |-> <<>>, total_complexity |-> Zero,
     metrics |-> [security_issues |-> 0, style_issues |-> 0, performance_issues |-> 0]]

\* Lines 666-673: one file of the loop; only a code file is analyzed.
AnalyzeFile(totals, file, language) ==
    IF is_code_file(file.filename)
    THEN [issues |-> totals.issues \o CodeAnalysisTool_run(file.content, language).issues,
          total_complexity |->
              RAdd(totals.total_complexity,
                   CodeAnalysisTool_run(file.content, language).complexity_score),
          metrics |->
              [key \in DOMAIN totals.metrics |->
                  totals.metrics[key]
                      + CodeAnalysisTool_run(file.content, language).metrics[key]]]
    ELSE totals

\* The loop of lines 666-673 over the first n files of the map.
RECURSIVE AnalyzeFiles(_, _, _)
AnalyzeFiles(files, n, language) ==
    IF n = 0
    THEN NoFileAnalyzed
    ELSE AnalyzeFile(AnalyzeFiles(files, n - 1, language), files[n], language)

\* Lines 675-679: the totals are divided by the number of files of the map.
AnalysisOfTotals(totals, file_count) ==
    [issues |-> totals.issues,
     complexity_score |->
         RDiv(totals.total_complexity, Int2Rat(IF file_count < 1 THEN 1 ELSE file_count)),
     metrics |-> totals.metrics]

\* QualityAssessmentAgent._analyze_code_files; the file map is the sequence
\* of its items in insertion order.
analyze_code_files(files, language) ==
    AnalysisOfTotals(AnalyzeFiles(files, Len(files), language), Len(files))

\* QualityAssessmentAgent._analyze_documentation
analyze_documentation(readme_content) == DocumentationAnalysisTool_run("", readme_content)

\* Lines 435-453: a validation error of the metrics ends the call.
RepositoryAssessmentOf(code_analysis, doc_analysis, metrics, include_suggestions, file_count) ==
    IF metrics.raised
    THEN metrics
    ELSE AssessmentOfMetrics(metrics.value, compile_issues(code_analysis, doc_analysis),
                             include_suggestions, file_count)

\* Lines 429-453, given the two analyses.
AssessRepositoryAnalyses(code_analysis, doc_analysis, include_suggestions, file_count) ==
    RepositoryAssessmentOf(code_analysis, doc_analysis,
                           calculate_quality_metrics(code_analysis, doc_analysis),
                           include_suggestions, file_count)

\* QualityAssessmentAgent._assess_repository_quality on the fetched
\* repository data.
assess_repository_quality(repo_data, language, include_suggestions) ==
    AssessRepositoryAnalyses(analyze_code_files(repo_data.files, language),
                             analyze_documentation(repo_data.readme),
                             include_suggestions, Len(repo_data.files))

\* Bound of the repositories: the files of a file map.
MaxRepoFiles == 3

\* The files repositories are made of.
RepoFiles ==
    {[filename |-> "main.py", content |-> "if a and b: pass"],
     [filename |-> "util.py", content |-> "x = eval(s)\nexec(c)"],
     [filename |-> "requirements.txt", content |-> "flask==2.0.1\n"],
     [filename |-> "README.md", content |-> "eval(all)"]}

\* File maps: sequences of files with distinct names.
FileMaps ==
    UNION {{files \in [1..n -> RepoFiles] :
               \A i, j \in 1..n : files[i] = files[j] => i = j} : n \in 0..MaxRepoFiles}

RepositoryInputs ==
    [op : {"repository"}, files : FileMaps, readme : {"", "## Installation"},
     language : {"python", "go"}, include_suggestions : BOOLEAN, done : {FALSE}]

\* _assess_repository_quality on the drawn repository data; the analysis of
\* the code files is kept beside the result.
AssessRepositoryQuality ==
    /\ analysis.op = "repository" /\ ~analysis.done
    /\ analysis' =
          [analysis EXCEPT !.done = TRUE] @@
          [code_analysis |-> analyze_code_files(analysis.files, analysis.language),
           result |-> assess_repository_quality(
                          [files |-> analysis.files, readme |-> analysis.readme],
                          analysis.language, analysis.include_suggestions)]
    /\ UNCHANGED <<skill, experience, availability, ranking, matching, confidence,
                   documentation, agent>>

\* Bounds of the source texts: the lines of a short text, and the sizes of
\* the long texts that take each path beyond its cap.
MaxLines == 2
ManyBraces == 101
ManyLines == 1000
ManyBranches == 25

\* The lines short texts are written with.
SourceLines ==
    {"", "# note", "x = eval(s)", "exec(c)", "if a and b: pass", "while a or b: pass",
     "try: pass", "except E: pass", "key = \"k1\"", "db.execute(\"q %s\" % v)",
     "y = = eval(s)", "function f() { exec(c) }"}

\* "\n".join(lines)
RECURSIVE JoinLines(_)
JoinLines(lines) ==
    IF Len(lines) = 1 THEN lines[1] ELSE lines[1] \o "\n" \o JoinLines(Tail(lines))

SourceTexts ==
    UNION {{JoinLines(lines) : lines \in [1..n -> SourceLines]} : n \in 1..MaxLines}
        \cup {Repeat("{", ManyBraces), Repeat("\n", ManyLines),
              Repeat("if a and b: pass\n", ManyBranches)}

\* Language tags of a request.
Languages == {"Python", "javascript", "TypeScript", "SOLIDITY", "go"}

AnalysisInputs ==
    [op : {"analyze"}, code : SourceTexts, language : Languages, done : {FALSE}]
        \cup [op : {"assess"}, code : SourceTexts, language : Languages,
              include_suggestions : BOOLEAN, done : {FALSE}]

\* CodeAnalysisTool._run on the drawn text and tag.
AnalyzeCode ==
    /\ analysis.op = "analyze" /\ ~analysis.done
    /\ analysis' =
          [op |-> "analyze", code |-> analysis.code, language |-> analysis.language,
           done |-> TRUE,
           result |-> CodeAnalysisTool_run(analysis.code, analysis.language)]
    /\ UNCHANGED <<skill, experience, availability, ranking, matching, confidence,
                   documentation, agent>>

\* _assess_code_quality on the drawn text and tag; the analysis of the code
\* tool is kept beside the result.
AssessCodeQuality ==
    /\ analysis.op = "assess" /\ ~analysis.done
    /\ analysis' =
          [op |-> "assess", code |-> analysis.code, language |-> analysis.language,
           include_suggestions |-> analysis.include_suggestions, done |-> TRUE,
           code_analysis |-> CodeAnalysisTool_run(analysis.code, analysis.language),
           result |-> assess_code_quality(analysis.code, analysis.language,
                                          analysis.include_suggestions)]
    /\ UNCHANGED <<skill, experience, availability, ranking, matching, confidence,
                   documentation, agent>>

(***************************************************************************)
(* QualityAssessmentAgent._calculate_quality_metrics: inputs               *)
(***************************************************************************)
\* Bounds of the analyses the metrics are computed from: the issue counts,
\* and the steps of the complexity grid [0,10] and of the documentation
\* grid [0,100].
MaxIssues == 6
ComplexitySteps == 10
DocumentationSteps == 8

MetricsInputs ==
    [op : {"metrics"},
     security_issues : 0..MaxIssues,
     style_issues : 0..MaxIssues,
     complexity_score : {Rat(10 * k, ComplexitySteps) : k \in 0..ComplexitySteps},
     documentation_score : {Rat(100 * k, DocumentationSteps) : k \in 0..DocumentationSteps},
     done : {FALSE}]

\* _calculate_quality_metrics on the drawn analyses.
CalculateQualityMetrics ==
    /\ analysis.op = "metrics" /\ ~analysis.done
    /\ analysis' =
          [analysis EXCEPT !.done = TRUE] @@
          [result |-> calculate_quality_metrics(
                          [metrics |-> [security_issues |-> analysis.security_issues,
                                        style_issues |-> analysis.style_issues],
                           complexity_score |-> analysis.complexity_score],
                          [documentation_score |-> analysis.documentation_score])]
    /\ UNCHANGED <<skill, experience, availability, ranking, matching, confidence,
                   documentation, agent>>

(***************************************************************************)
(* DocumentationAnalysisTool: inputs                                       *)
(***************************************************************************)
\* Bounds of the documented texts: the lines of a short text, and the code
\* lines that follow one comment line in a long text.
MaxDocLines == 3
ManyCodeLines == 9

\* The lines short texts are written with: blank, comment and code lines.
DocLines ==
    {"", "   ", "# c", "  // c", "/* c */", "s = \"\"\"d\"\"\"", "x = 1", "\tz = 2 "}

DocTexts ==
    UNION {{JoinLines(lines) : lines \in [1..n -> DocLines]} : n \in 1..MaxDocLines}
        \cup {"# c\n" \o Repeat("x = 1\n", ManyCodeLines),
              "# c\n" \o Repeat("x = 1\n", ManyCodeLines + 1)}

\* The words a README is written with.
ReadmeWords ==
    <<"Installation", "SETUP", "usage", "Example", "API", "documentation",
      "Contributing", "License", "tests">>

\* The README with the chosen words, each followed by a space.
RECURSIVE ReadmeOfWords(_, _)
ReadmeOfWords(chosen, i) ==
    IF i > Len(ReadmeWords) THEN ""
    ELSE (IF i \in chosen THEN ReadmeWords[i] \o " " ELSE "") \o ReadmeOfWords(chosen, i + 1)

\* The text filled with dots up to a length (unchanged if it is longer).
Padded(text, length) ==
    IF Len(text) >= length THEN text ELSE text \o Repeat(".", length - Len(text))

\* READMEs: any choice of words, as it is, or filled up to the length of a
\* substantial README and to one character more.
Readmes ==
    UNION {{[words |-> chosen, text |-> ReadmeOfWords(chosen, 1)],
            [words |-> chosen,
             text |-> Padded(ReadmeOfWords(chosen, 1), SubstantialLength)],
            [words |-> chosen,
             text |-> Padded(ReadmeOfWords(chosen, 1), SubstantialLength + 1)]} :
               chosen \in SUBSET DOMAIN ReadmeWords}

\* The READMEs the whole tool is run with: none, one award of 10, one of 20,
\* and every word.
RunReadmes == {"", "License", "## Usage", ReadmeOfWords(DOMAIN ReadmeWords, 1)}

DocumentationInputs ==
    [op : {"run"}, code : DocTexts, readme_content : RunReadmes, done : {FALSE}]
        \cup {[op |-> "readme", words |-> r.words, readme |-> r.text, done |-> FALSE] :
                 r \in Readmes}

\* DocumentationAnalysisTool._run on the drawn text and README.
DocumentationRun ==
    /\ documentation.op = "run" /\ ~documentation.done
    /\ documentation' =
          [op |-> "run", code |-> documentation.code,
           readme_content |-> documentation.readme_content, done |-> TRUE,
           result |-> DocumentationAnalysisTool_run(documentation.code,
                                                    documentation.readme_content)]
    /\ UNCHANGED <<skill, experience, availability, ranking, matching, confidence,
                   analysis, agent>>

\* DocumentationAnalysisTool._analyze_readme on the drawn README.
AnalyzeReadme ==
    /\ documentation.op = "readme" /\ ~documentation.done
    /\ documentation' =
          [op |-> "readme", words |-> documentation.words,
           readme |-> documentation.readme, done |-> TRUE,
           result |-> analyze_readme(documentation.readme)]
    /\ UNCHANGED <<skill, experience, availability, ranking, matching, confidence,
                   analysis, agent>>

(***************************************************************************)
(* BaseAgent: logger, initialization, request wrapper and metrics          *)
(***************************************************************************)
\* The methods of AIServiceLogger (core/logging.py:62-118).
AIServiceLoggerMethods ==
    {"info", "warning", "error", "debug", "log_request", "log_response",
     "log_ai_operation", "log_error_with_context"}

\* AttributeError of an attribute lookup that fails.
AttributeError(type, attribute) ==
    Raised("AttributeError: '" \o type \o "' object has no attribute '" \o attribute \o "'")

\* self.logger.<method>(...): a name the class does not define raises
\* AttributeError.
LoggerCall(method) ==
    IF method \in AIServiceLoggerMethods
    THEN Returned(None)
    ELSE AttributeError("AIServiceLogger", method)

\* except Exception as e: self.logger.error_with_context(e, ...); raise
\* (lines 87-92 and 136-145): the error that leaves the handler. An error
\* raised inside the handler replaces e.
ErrorHandler(e) ==
    IF LoggerCall("error_with_context").raised
    THEN LoggerCall("error_with_context")
    ELSE e

\* Outcomes of the pair _setup_tools/_setup_executor: the models load, or
\* loading fails.
SetupOutcomes == {Returned(None), Raised("OSError")}

\* BaseAgent.initialize, given the outcome of the setup (lines 81-92).
initialize(setup) == IF setup.raised THEN ErrorHandler(setup) ELSE Returned(None)

\* AgentMetrics.__init__
AgentMetrics == [total_requests |-> 0, successful_requests |-> 0, failed_requests |-> 0]

\* AgentMetrics.record_request (the processing times are left out)
record_request(metrics, success) ==
    [total_requests |-> metrics.total_requests + 1,
     successful_requests |-> metrics.successful_requests + (IF success THEN 1 ELSE 0),
     failed_requests |-> metrics.failed_requests + (IF success THEN 0 ELSE 1)]

\* BaseAgent._calculate_confidence: ConfidenceLevel.MEDIUM, overridden by
\* neither agent.
calculate_confidence(result) == "medium"

\* result.update({...}) of lines 126-131 (processing_time and timestamp are
\* left out): the keys of the update replace those of the result.
WithMetadata(name, result) ==
    [agent |-> name, confidence_level |-> calculate_confidence(result)] @@ result

\* Lines 112-145 of process_request, given the outcome of
\* _process_request_internal: the value returned or the error raised.
Wrapped(name, internal) ==
    IF LoggerCall("log_request").raised
    THEN ErrorHandler(LoggerCall("log_request"))
    ELSE IF internal.raised
         THEN ErrorHandler(internal)
         ELSE Returned(WithMetadata(name, internal.value))

\* request.get(key, default)
Get(request, key, default) == IF key \in DOMAIN request THEN request[key] ELSE default

\* The repository data _fetch_repository_data may return.
FetchedRepositories ==
    {[files |-> <<[filename |-> "main.py", content |-> "if a and b: pass"],
                  [filename |-> "requirements.txt", content |-> "flask==2.0.1\n"]>>,
      readme |-> "## Installation"],
     [files |-> <<[filename |-> "README.md", content |-> "eval(all)"]>>, readme |-> ""]}

\* language.lower() of CodeAnalysisTool._run (line 36) on the language of
\* the request: None has no lower().
CodeAnalysisOnLanguage(language, analyzed, assessment) ==
    IF language = None /\ analyzed
    THEN AttributeError("NoneType", "lower")
    ELSE assessment

\* _assess_repository_quality on the language of the request; the code tool
\* is run once per code file.
AssessRepositoryOfRequest(repo_data, language, include_suggestions) ==
    CodeAnalysisOnLanguage(
        language,
        \E i \in DOMAIN repo_data.files : is_code_file(repo_data.files[i].filename),
        assess_repository_quality(repo_data,
                                  IF language = None THEN "" ELSE language[1],
                                  include_suggestions))

\* _assess_code_quality on the language of the request.
AssessCodeOfRequest(code_content, language, include_suggestions) ==
    CodeAnalysisOnLanguage(
        language, TRUE,
        assess_code_quality(code_content, IF language = None THEN "" ELSE language[1],
                            include_suggestions))

\* QualityAssessmentAgent._assess_solution_quality: the solution data name
\* a repository and the language python.
assess_solution_quality(repo_data, include_suggestions) ==
    assess_repository_quality(repo_data, "python", include_suggestions)

\* QualityAssessmentAgent._process_request_internal
QualityAssessmentAgent_process_request_internal(request, repo_data) ==
    IF Truthy(Get(request, "solution_id", None))
    THEN assess_solution_quality(repo_data, Get(request, "include_suggestions", TRUE))
    ELSE IF TruthyStr(Get(request, "repository_url", None))
    THEN AssessRepositoryOfRequest(repo_data, Get(request, "language", Some("python")),
                                   Get(request, "include_suggestions", TRUE))
    ELSE IF TruthyStr(Get(request, "code_content", None))
    THEN AssessCodeOfRequest(Get(request, "code_content", None)[1],
                             Get(request, "language", Some("python")),
                             Get(request, "include_suggestions", TRUE))
    ELSE Raised("ValueError")

\* _get_available_developers and _get_available_bounties: two lookups.
get_available_developers(snapshot) ==
    <<get_developer_data(snapshot, "0xd1"), get_developer_data(snapshot, "0xd2")>>

get_available_bounties(snapshot) == <<get_bounty_data(snapshot, 1), get_bounty_data(snapshot, 2)>>

\* BountyMatchingAgent._process_request_internal, given the snapshots of the
\* bounty service and of the user service.
BountyMatchingAgent_process_request_internal(sim, request, b, d) ==
    IF Route(request) = "_match_bounty_developer"
    THEN match_bounty_developer(sim, get_bounty_data(b, request.bounty_id[1]),
                                get_developer_data(d, request.developer_address[1]))
    ELSE IF Route(request) = "_find_developers_for_bounty"
    THEN find_developers_for_bounty(sim, get_bounty_data(b, request.bounty_id[1]),
                                    get_available_developers(d), request.limit,
                                    request.min_compatibility_score)
    ELSE IF Route(request) = "_find_bounties_for_developer"
    THEN find_bounties_for_developer(sim,
                                     get_developer_data(d, request.developer_address[1]),
                                     get_available_bounties(b), request.limit,
                                     request.min_compatibility_score)
    ELSE Raised("ValueError")

(***************************************************************************)
(* BaseAgent: calls of process_request one after the other                 *)
(***************************************************************************)
\* Bound of the calls made on one agent.
MaxCalls == 2

\* QualityAssessmentRequest(...).dict(): every field is a key of the request,
\* a field that was not given holds its default (language: None).
QualityAssessmentRequests ==
    [solution_id : {None, Some(3)},
     repository_url : {None, Some("https://github.com/example/solution")},
     code_content : {None, Some("x = eval(s)\nexec(c)")},
     language : {None, Some("Python")},
     include_suggestions : {TRUE}]

\* Requests of the quality agent: those of the endpoints, and a dictionary
\* without the key language, as a direct caller may pass.
QualityRequests ==
    QualityAssessmentRequests \cup {[code_content |-> Some("if a and b: pass")]}

\* Requests of the matching agent.
MatchingRequests ==
    {request \in Requests :
        request.limit = LimitCeiling /\ request.min_compatibility_score = <<1, 2>>}

\* The similarity table of the embedding model of the matching agent.
ServiceSim == SimTable(<<1, 2>>)

\* The snapshots the bounty service and the user service answer with.
ServiceSnapshots ==
    {[bounty |-> b, developer |-> d] :
        b \in {s \in BountySnapshots : s.deadline.kind = "naive"},
        d \in {s \in DeveloperSnapshots : s.availability_hours = Some(30)}}

AgentNames == {"bounty_matching", "quality_assessment"}

\* BaseAgent.__init__, with the counts of the calls that returned and of the
\* calls that raised since the metrics were created.
NewAgent(name) ==
    [op |-> "service", name |-> name, is_initialized |-> FALSE, metrics |-> AgentMetrics,
     returned |-> 0, raised |-> 0, calls |-> 0, last |-> [kind |-> "none"]]

\* The agent after a call of process_request whose lazy initialization
\* failed (lines 106-107): the error leaves the call before the try block.
AfterFailedInitialization(request, error) ==
    [agent EXCEPT !.raised = @ + 1, !.calls = @ + 1,
                  !.last = [kind |-> "call", request |-> request, reached |-> FALSE,
                            outcome |-> error]]

\* The agent after a call of process_request that reached the try block
\* (lines 109-154), given the outcomes of _process_request_internal and of
\* the call.
AfterProcessing(request, internal, outcome) ==
    [agent EXCEPT !.is_initialized = TRUE,
                  !.metrics = record_request(@, ~outcome.raised),
                  !.returned = @ + (IF outcome.raised THEN 0 ELSE 1),
                  !.raised = @ + (IF outcome.raised THEN 1 ELSE 0),
                  !.calls = @ + 1,
                  !.last = [kind |-> "call", request |-> request, reached |-> TRUE,
                            internal |-> internal, outcome |-> outcome]]

\* BaseAgent.process_request, given the outcome of the setup (if the agent
\* is not initialized) and of _process_request_internal.
AfterProcessRequest(request, setup, internal) ==
    IF ~agent.is_initialized /\ initialize(setup).raised
    THEN AfterFailedInitialization(request, initialize(setup))
    ELSE AfterProcessing(request, internal, Wrapped(agent.name, internal))

\* The outcomes of the setup a call may meet: an initialized agent is not
\* set up again.
PossibleSetups == IF agent.is_initialized THEN {Returned(None)} ELSE SetupOutcomes

\* process_request of the quality assessment agent.
ProcessQualityRequest ==
    /\ agent.op = "service" /\ agent.name = "quality_assessment"
    /\ agent.calls < MaxCalls
    /\ \E request \in QualityRequests, setup \in PossibleSetups,
          repo_data \in FetchedRepositories :
          agent' = AfterProcessRequest(
                       request, setup,
                       QualityAssessmentAgent_process_request_internal(request, repo_data))
    /\ UNCHANGED <<skill, experience, availability, ranking, matching, confidence,
                   analysis, documentation>>

\* process_request of the bounty matching agent.
ProcessMatchingRequest ==
    /\ agent.op = "service" /\ agent.name = "bounty_matching"
    /\ agent.calls < MaxCalls
    /\ \E request \in MatchingRequests, setup \in PossibleSetups, s \in ServiceSnapshots :
          agent' = AfterProcessRequest(
                       request, setup,
                       BountyMatchingAgent_process_request_internal(
                           ServiceSim, request, s.bounty, s.developer))
    /\ UNCHANGED <<skill, experience, availability, ranking, matching, confidence,
                   analysis, documentation>>

\* BaseAgent.reset_metrics
ResetMetrics ==
    /\ agent.op = "service"
    /\ agent.calls > 0
    /\ agent' = [agent EXCEPT !.metrics = AgentMetrics, !.returned = 0, !.raised = 0]
    /\ UNCHANGED <<skill, experience, availability, ranking, matching, confidence,
                   analysis, documentation>>

(***************************************************************************)
(* BaseAgent: concurrent calls on one agent. A task runs from one await to *)
(* the next in one step; another task may run in between.                  *)
(***************************************************************************)
\* Bound of the tasks that run concurrently on the agent.
MaxTasks == 2

Tasks == 1..MaxTasks

\* A request of a concurrent call of process_request.
TaskRequest(bounty_id, developer_address) ==
    [bounty_id |-> bounty_id, developer_address |-> developer_address,
     limit |-> LimitCeiling, min_compatibility_score |-> <<1, 2>>]

\* The calls a task makes: BaseAgent.initialize, AgentManager.get_agent, or
\* BaseAgent.process_request on a request of each route.
TaskCalls ==
    <<[kind |-> "initialize"],
      [kind |-> "get_agent"],
      [kind |-> "process_request", request |-> TaskRequest(Some(7), None)],
      [kind |-> "process_request", request |-> TaskRequest(None, Some("0xd9"))],
      [kind |-> "process_request", request |-> TaskRequest(Some(7), Some("0xd9"))],
      [kind |-> "process_request", request |-> TaskRequest(None, None)]>>

\* The calls of the tasks: tasks are interchangeable, so the calls are drawn
\* in the order of TaskCalls.
CallsOfTasks ==
    {[t \in Tasks |-> TaskCalls[choice[t]]] :
        choice \in {c \in [Tasks -> DOMAIN TaskCalls] :
                       \A t, u \in Tasks : t < u => c[t] <= c[u]}}

NewTask(call) ==
    [call |-> call, pc |-> "start", ran_tools |-> FALSE, ran_executor |-> FALSE,
     pairs |-> <<>>, matches |-> Returned(<<>>), next |-> 1]

\* A variant in which every task reads the matches collected by the first
\* task.
MatchesOf_shared(tasks, t) == tasks[1].matches

\* matches of _find_developers_for_bounty and _find_bounties_for_developer:
\* a local list of the call.
MatchesOf(tasks, t) == tasks[t].matches

\* The task after its call ended with an outcome.
Ended(task, outcome) == [task EXCEPT !.pc = "done"] @@ [outcome |-> outcome]

\* The agent after process_request of task t left its try block (lines
\* 112-154) with the outcome of _process_request_internal.
AfterInternal(t, internal) ==
    [agent EXCEPT
        !.metrics = record_request(@, ~Wrapped(agent.name, internal).raised),
        !.tasks[t] = Ended(@, Wrapped(agent.name, internal)) @@ [internal |-> internal]]

\* The agent after initialize returned in task t: initialize and get_agent
\* return, process_request goes on to the await of _validate_request.
AfterInitialize(state, t) ==
    IF state.tasks[t].call.kind = "process_request"
    THEN [state EXCEPT !.tasks[t].pc = "validate"]
    ELSE [state EXCEPT !.tasks[t] = Ended(@, Returned(None))]

\* The task starts its call: the checks of lines 106, 273 and 78. On an
\* agent that is not initialized the task enters initialize and awaits
\* _setup_tools.
StartCall(t) ==
    /\ agent.op = "tasks" /\ agent.tasks[t].pc = "start"
    /\ agent' = IF agent.is_initialized
                THEN AfterInitialize(agent, t)
                ELSE [agent EXCEPT !.tasks[t].pc = "setup_tools"]
    /\ UNCHANGED <<skill, experience, availability, ranking, matching, confidence,
                   analysis, documentation>>

\* _setup_tools runs in task t (line 83); then the task awaits
\* _setup_executor, or the error leaves initialize through its handler.
SetupTools(t) ==
    /\ agent.op = "tasks" /\ agent.tasks[t].pc = "setup_tools"
    /\ \E setup \in SetupOutcomes :
          agent' = IF setup.raised
                   THEN [agent EXCEPT
                            !.tasks[t] = Ended([@ EXCEPT !.ran_tools = TRUE],
                                               initialize(setup))]
                   ELSE [agent EXCEPT !.tools = Some(ServiceSim),
                                      !.tasks[t].ran_tools = TRUE,
                                      !.tasks[t].pc = "setup_executor"]
    /\ UNCHANGED <<skill, experience, availability, ranking, matching, confidence,
                   analysis, documentation>>

\* _setup_executor runs in task t (line 84); then is_initialized is set
\* (line 85), or the error leaves initialize through its handler.
SetupExecutor(t) ==
    /\ agent.op = "tasks" /\ agent.tasks[t].pc = "setup_executor"
    /\ \E setup \in SetupOutcomes :
          agent' = IF setup.raised
                   THEN [agent EXCEPT
                            !.tasks[t] = Ended([@ EXCEPT !.ran_executor = TRUE],
                                               initialize(setup))]
                   ELSE AfterInitialize(
                            [agent EXCEPT !.is_initialized = TRUE,
                                          !.tasks[t].ran_executor = TRUE], t)
    /\ UNCHANGED <<skill, experience, availability, ranking, matching, confidence,
                   analysis, documentation>>

\* _validate_request returns in task t (line 120) and
\* _process_request_internal routes the request (lines 200-215): it awaits
\* the first lookup, or raises ValueError.
ValidateAndRoute(t) ==
    /\ agent.op = "tasks" /\ agent.tasks[t].pc = "validate"
    /\ agent' = IF Route(agent.tasks[t].call.request) = "ValueError"
                THEN AfterInternal(t, Raised("ValueError"))
                ELSE [agent EXCEPT !.tasks[t].pc = "lookup"]
    /\ UNCHANGED <<skill, experience, availability, ranking, matching, confidence,
                   analysis, documentation>>

\* The candidate pairs of a request, from the snapshots of the services.
PairsOf(request, snapshot) ==
    IF Route(request) = "_match_bounty_developer"
    THEN <<[developer |-> get_developer_data(snapshot.developer,
                                             request.developer_address[1]),
            bounty |-> get_bounty_data(snapshot.bounty, request.bounty_id[1])]>>
    ELSE IF Route(request) = "_find_developers_for_bounty"
    THEN [i \in 1..2 |->
             [developer |-> get_available_developers(snapshot.developer)[i],
              bounty |-> get_bounty_data(snapshot.bounty, request.bounty_id[1])]]
    ELSE [i \in 1..2 |->
             [developer |-> get_developer_data(snapshot.developer,
                                               request.developer_address[1]),
              bounty |-> get_available_bounties(snapshot.bounty)[i]]]

\* The lookups of the bounty and of the developers return in task t (lines
\* 220-221, 234-237, 257-260); the task awaits the first _calculate_match.
Lookup(t) ==
    /\ agent.op = "tasks" /\ agent.tasks[t].pc = "lookup"
    /\ agent' = [agent EXCEPT
                    !.tasks[t].pairs = PairsOf(agent.tasks[t].call.request, agent.snapshot),
                    !.tasks[t].pc = "score"]
    /\ UNCHANGED <<skill, experience, availability, ranking, matching, confidence,
                   analysis, documentation>>

\* The response of the request of a task once its last candidate is scored.
ResponseOf(request, collected, match) ==
    IF Route(request) = "_match_bounty_developer"
    THEN SingleMatch(match)
    ELSE SortAndTruncate(collected, request.limit)

\* The agent after _calculate_match returned in task t for its next pair
\* with the matches collected so far: the loop goes on to the next await, or
\* the call ends with the response or with the error of the scoring.
AfterMatch(t, task, collected, match) ==
    IF collected.raised \/ task.next = Len(task.pairs)
    THEN AfterInternal(t, ResponseOf(task.call.request, collected, match))
    ELSE [agent EXCEPT !.tasks[t].matches = collected, !.tasks[t].next = @ + 1]

\* The similarity table and the pair _calculate_match reads in task t.
ToolsOfAgent == agent.tools[1]
NextPair(t) == agent.tasks[t].pairs[agent.tasks[t].next]

\* _calculate_match returns in task t (lines 224, 242, 265), scored with
\* the tools of the agent; self.tools[0] of an agent without tools raises
\* IndexError.
ScoreNext(t) ==
    /\ agent.op = "tasks" /\ agent.tasks[t].pc = "score"
    /\ agent' =
          IF agent.tools = None
          THEN AfterInternal(t, Raised("IndexError"))
          ELSE AfterMatch(
                   t, agent.tasks[t],
                   AppendMatch(MatchesOf(agent.tasks, t),
                               calculate_match(ToolsOfAgent, NextPair(t).developer,
                                               NextPair(t).bounty),
                               IF Route(agent.tasks[t].call.request)
                                      = "_match_bounty_developer"
                               THEN Zero
                               ELSE agent.tasks[t].call.request.min_compatibility_score),
                   calculate_match(ToolsOfAgent, NextPair(t).developer, NextPair(t).bounty))
    /\ UNCHANGED <<skill, experience, availability, ranking, matching, confidence,
                   analysis, documentation>>

(***************************************************************************)
(* Specifications: each one draws the inputs of one component and leaves   *)
(* the other components idle                                               *)
(***************************************************************************)
MatchingIdle == [op |-> "idle"]
ConfidenceIdle == [op |-> "idle"]
AnalysisIdle == [op |-> "idle"]
DocumentationIdle == [op |-> "idle"]
AgentIdle == [op |-> "idle"]

InitSkill ==
    /\ agent = AgentIdle
    /\ skill \in {[sim |-> i.sim, developer_skills |-> i.developer_skills,
                   required_skills |-> i.required_skills,
                   done |-> FALSE, score |-> Zero] : i \in SkillInputs}
    /\ experience = ExperienceIdle
    /\ availability = AvailabilityIdle
    /\ ranking = RankingIdle
    /\ matching = MatchingIdle
    /\ confidence = ConfidenceIdle
    /\ analysis = AnalysisIdle
    /\ documentation = DocumentationIdle

NextSkill == SkillRun

SpecSkill == InitSkill /\ [][NextSkill]_vars

InitExperience ==
    /\ agent = AgentIdle
    /\ experience \in [developer_experience : ExperienceLabels,
                       bounty_difficulty : DifficultyLabels,
                       reputation_score : Reputations,
                       done : {FALSE}, score : {Zero}]
    /\ skill = SkillIdle
    /\ availability = AvailabilityIdle
    /\ ranking = RankingIdle
    /\ matching = MatchingIdle
    /\ confidence = ConfidenceIdle
    /\ analysis = AnalysisIdle
    /\ documentation = DocumentationIdle

NextExperience == ExperienceRun

SpecExperience == InitExperience /\ [][NextExperience]_vars

InitAvailability ==
    /\ agent = AgentIdle
    /\ availability \in [developer_hours : OptionalHours(MaxDeveloperHours),
                         estimated_hours : OptionalHours(MaxEstimatedHours),
                         deadline : Deadlines,
                         active_bounties : 0..MaxActive,
                         done : {FALSE}, result : {Returned(Zero)}]
    /\ skill = SkillIdle
    /\ experience = ExperienceIdle
    /\ ranking = RankingIdle
    /\ matching = MatchingIdle
    /\ confidence = ConfidenceIdle
    /\ analysis = AnalysisIdle
    /\ documentation = DocumentationIdle

NextAvailability == AvailabilityRun

SpecAvailability == InitAvailability /\ [][NextAvailability]_vars

InitRanking ==
    /\ agent = AgentIdle
    /\ ranking \in {[pc |-> "idle", sim |-> s] : s \in RankingSims}
    /\ skill = SkillIdle
    /\ experience = ExperienceIdle
    /\ availability = AvailabilityIdle
    /\ matching = MatchingIdle
    /\ confidence = ConfidenceIdle
    /\ analysis = AnalysisIdle
    /\ documentation = DocumentationIdle

NextRanking ==
    \/ ProcessMatchBountyDeveloper
    \/ ProcessFindDevelopersForBounty
    \/ ProcessFindBountiesForDeveloper
    \/ ProcessRejected
    \/ NextRequest

SpecRanking == InitRanking /\ [][NextRanking]_vars

InitMatching ==
    /\ agent = AgentIdle
    /\ matching \in MatchingInputs
    /\ skill = SkillIdle
    /\ experience = ExperienceIdle
    /\ availability = AvailabilityIdle
    /\ ranking = RankingIdle
    /\ confidence = ConfidenceIdle
    /\ analysis = AnalysisIdle
    /\ documentation = DocumentationIdle

NextMatching ==
    \/ CalculateMatch
    \/ CalculateSuccessProbability
    \/ GenerateExplanation

SpecMatching == InitMatching /\ [][NextMatching]_vars

InitConfidence ==
    /\ agent = AgentIdle
    /\ confidence \in ConfidenceInputs
    /\ skill = SkillIdle
    /\ experience = ExperienceIdle
    /\ availability = AvailabilityIdle
    /\ ranking = RankingIdle
    /\ matching = MatchingIdle
    /\ analysis = AnalysisIdle
    /\ documentation = DocumentationIdle

NextConfidence ==
    \/ DetermineMatchConfidence
    \/ DetermineQualityConfidence

SpecConfidence == InitConfidence /\ [][NextConfidence]_vars

InitAnalysis ==
    /\ agent = AgentIdle
    /\ analysis \in AnalysisInputs
    /\ skill = SkillIdle
    /\ experience = ExperienceIdle
    /\ availability = AvailabilityIdle
    /\ ranking = RankingIdle
    /\ matching = MatchingIdle
    /\ confidence = ConfidenceIdle
    /\ documentation = DocumentationIdle

NextAnalysis ==
    \/ AnalyzeCode
    \/ AssessCodeQuality

SpecAnalysis == InitAnalysis /\ [][NextAnalysis]_vars

InitDocumentation ==
    /\ agent = AgentIdle
    /\ documentation \in DocumentationInputs
    /\ skill = SkillIdle
    /\ experience = ExperienceIdle
    /\ availability = AvailabilityIdle
    /\ ranking = RankingIdle
    /\ matching = MatchingIdle
    /\ confidence = ConfidenceIdle
    /\ analysis = AnalysisIdle

NextDocumentation ==
    \/ DocumentationRun
    \/ AnalyzeReadme

SpecDocumentation == InitDocumentation /\ [][NextDocumentation]_vars

InitMetrics ==
    /\ agent = AgentIdle
    /\ analysis \in MetricsInputs
    /\ skill = SkillIdle
    /\ experience = ExperienceIdle
    /\ availability = AvailabilityIdle
    /\ ranking = RankingIdle
    /\ matching = MatchingIdle
    /\ confidence = ConfidenceIdle
    /\ documentation = DocumentationIdle

NextMetrics == CalculateQualityMetrics

SpecMetrics == InitMetrics /\ [][NextMetrics]_vars

InitRepository ==
    /\ agent = AgentIdle
    /\ analysis \in RepositoryInputs
    /\ skill = SkillIdle
    /\ experience = ExperienceIdle
    /\ availability = AvailabilityIdle
    /\ ranking = RankingIdle
    /\ matching = MatchingIdle
    /\ confidence = ConfidenceIdle
    /\ documentation = DocumentationIdle

NextRepository == AssessRepositoryQuality

SpecRepository == InitRepository /\ [][NextRepository]_vars

InitService ==
    /\ agent \in {NewAgent(name) : name \in AgentNames}
    /\ skill = SkillIdle
    /\ experience = ExperienceIdle
    /\ availability = AvailabilityIdle
    /\ ranking = RankingIdle
    /\ matching = MatchingIdle
    /\ confidence = ConfidenceIdle
    /\ analysis = AnalysisIdle
    /\ documentation = DocumentationIdle

NextService ==
    \/ ProcessQualityRequest
    \/ ProcessMatchingRequest
    \/ ResetMetrics

SpecService == InitService /\ [][NextService]_vars

InitTasks ==
    /\ agent \in {[op |-> "tasks", name |-> "bounty_matching", is_initialized |-> FALSE,
                   tools |-> None, metrics |-> AgentMetrics, snapshot |-> snapshot,
                   tasks |-> [t \in Tasks |-> NewTask(calls[t])]] :
                     snapshot \in ServiceSnapshots, calls \in CallsOfTasks}
    /\ skill = SkillIdle
    /\ experience = ExperienceIdle
    /\ availability = AvailabilityIdle
    /\ ranking = RankingIdle
    /\ matching = MatchingIdle
    /\ confidence = ConfidenceIdle
    /\ analysis = AnalysisIdle
    /\ documentation = DocumentationIdle

NextTasks ==
    \E t \in Tasks :
       \/ StartCall(t)
       \/ SetupTools(t)
       \/ SetupExecutor(t)
       \/ ValidateAndRoute(t)
       \/ Lookup(t)
       \/ ScoreNext(t)

SpecTasks == InitTasks /\ [][NextTasks]_vars

(***************************************************************************)
(* Properties of ranking and routing (checked under SpecRanking)           *)
(***************************************************************************)
\* A ranking operation returned its list.
Ranked ==
    /\ ranking.pc = "done"
    /\ ranking.route \in {"_find_developers_for_bounty", "_find_bounties_for_developer"}
    /\ ~ranking.result.raised

\* The candidate pool of the ranking operation, as developer/bounty pairs.
CandidatePairs ==
    IF ranking.route = "_find_developers_for_bounty"
    THEN [i \in DOMAIN ranking.developers |->
             [developer |-> ranking.developers[i], bounty |-> ranking.bounties[1]]]
    ELSE [i \in DOMAIN ranking.bounties |->
             [developer |-> ranking.developers[1], bounty |-> ranking.bounties[i]]]

\* The place in the candidate pool of the candidate a match is about.
PoolIndex(match) ==
    CHOOSE i \in DOMAIN CandidatePairs :
        /\ CandidatePairs[i].developer.address = match.developer_address
        /\ CandidatePairs[i].bounty.id = match.bounty_id

\* C1: the list a ranking operation returns is sorted in non-increasing order
\* of compatibility_score, is no longer than limit, and holds only entries
\* whose compatibility_score is at least the minimum score.
C1_RankedSortedLimitedFiltered ==
    Ranked =>
        LET matches == ranking.result.value.matches
        IN  /\ \A i, j \in DOMAIN matches :
                  i < j => RGe(matches[i].compatibility_score,
                               matches[j].compatibility_score)
            /\ Len(matches) <= ranking.request.limit
            /\ \A i \in DOMAIN matches :
                  RGe(matches[i].compatibility_score,
                      ranking.request.min_compatibility_score)

\* C1 witness: of three candidates one is below the minimum, two are retained,
\* the limit of 1 cuts the list, and the last candidate of the pool is first.
C1_Witness ==
    /\ Ranked
    /\ Len(CandidatePairs) = 3
    /\ ranking.request.limit = 1
    /\ RLt(Zero, ranking.request.min_compatibility_score)
    /\ ranking.result.value.total_matches = 2
    /\ Len(ranking.result.value.matches) = 1
    /\ PoolIndex(ranking.result.value.matches[1]) = 3

\* C2: two returned candidates of equal compatibility_score appear in the
\* order they have in the candidate pool, and a candidate the limit cut off
\* does not precede, in score or among equal scores in pool order, one that
\* was returned.
C2_RankingStable ==
    Ranked =>
        LET matches == ranking.result.value.matches
            min_score == ranking.request.min_compatibility_score
            returned == {PoolIndex(matches[i]) : i \in DOMAIN matches}
            Score(p) == calculate_match(ranking.sim, CandidatePairs[p].developer,
                                        CandidatePairs[p].bounty).value.compatibility_score
        IN  /\ \A i, j \in DOMAIN matches :
                  (i < j /\ matches[i].compatibility_score = matches[j].compatibility_score)
                      => PoolIndex(matches[i]) < PoolIndex(matches[j])
            /\ \A p \in DOMAIN CandidatePairs, i \in DOMAIN matches :
                  (p \notin returned /\ RGe(Score(p), min_score)) =>
                      \/ RLt(Score(p), matches[i].compatibility_score)
                      \/ /\ Score(p) = matches[i].compatibility_score
                         /\ PoolIndex(matches[i]) < p

\* C2 witness: the first and the third candidate of the pool tie at the top,
\* in that order, ahead of the second; the limit cuts the third place.
C2_Witness ==
    /\ Ranked
    /\ Len(CandidatePairs) = 3
    /\ ranking.result.value.total_matches = 3
    /\ ranking.request.limit = 2
    /\ LET matches == ranking.result.value.matches
       IN  /\ Len(matches) = 2
           /\ PoolIndex(matches[1]) = 1
           /\ PoolIndex(matches[2]) = 3
           /\ matches[1].compatibility_score = matches[2].compatibility_score

\* C3 (as claimed): a request is rejected with the usage error if and only if
\* it supplies neither identifier; a request with a bounty_id (0 included) or
\* a non-empty developer_address is routed by the identifiers it supplies.
C3_RejectedIffNoIdentifier ==
    ranking.pc = "done" =>
        LET has_bounty == ranking.request.bounty_id # None
            has_developer == /\ ranking.request.developer_address # None
                             /\ ranking.request.developer_address # Some("")
        IN  /\ (has_bounty \/ has_developer) => ranking.route # "ValueError"
            /\ (ranking.request.bounty_id = None
                    /\ ranking.request.developer_address = None)
                  => ranking.result = Raised("ValueError")
            /\ (has_bounty /\ has_developer) => ranking.route = "_match_bounty_developer"
            /\ (has_bounty /\ ~has_developer) =>
                  ranking.route = "_find_developers_for_bounty"
            /\ (~has_bounty /\ has_developer) =>
                  ranking.route = "_find_bounties_for_developer"

(***************************************************************************)
(* Properties of the skill scorer (checked under SpecSkill)                *)
(***************************************************************************)
Range(xs) == {xs[i] : i \in DOMAIN xs}

\* The orderings of a list.
Orderings(xs) ==
    {[i \in DOMAIN xs |-> xs[p[i]]] : p \in Permutations(DOMAIN xs)}

\* The best similarity any developer skill achieves for the required skill r.
BestSimilarity(sim, developer_skills, r) ==
    CHOOSE v \in {sim[<<d, r>>] : d \in Range(developer_skills)} :
        \A d \in Range(developer_skills) : RLe(sim[<<d, r>>], v)

\* C4 (as claimed): the skill score lies in [0,1], and it is 0 if and only if
\* at least one of the two skill lists is empty.
C4_SkillScoreBoundedZeroIffEmpty ==
    skill.done =>
        /\ InUnit(skill.score)
        /\ skill.score = Zero <=>
              (skill.developer_skills = <<>> \/ skill.required_skills = <<>>)

\* C5: for non-empty lists the skill score is the mean over the required skills
\* of the best similarity a developer skill achieves for it; a further
\* developer skill never lowers it; it does not depend on the order of either
\* list.
C5_SkillScoreMeanOfBestMatches ==
    (skill.done /\ skill.developer_skills # <<>> /\ skill.required_skills # <<>>) =>
        LET dev == skill.developer_skills
            req == skill.required_skills
            best == [j \in DOMAIN req |-> BestSimilarity(skill.sim, dev, req[j])]
        IN  /\ RMul(skill.score, Int2Rat(Len(req))) = SeqSum(best, Len(req))
            /\ \A extra \in SkillLabels :
                  RLe(skill.score,
                      SkillMatchingTool_run(skill.sim, Append(dev, extra), req))
            /\ \A d2 \in Orderings(dev), r2 \in Orderings(req) :
                  SkillMatchingTool_run(skill.sim, d2, r2) = skill.score

\* C5 witness: two developer skills and two required skills, a score strictly
\* between 0 and 1 that a further developer skill raises.
C5_Witness ==
    /\ skill.done
    /\ Len(skill.developer_skills) = 2
    /\ Len(skill.required_skills) = 2
    /\ skill.developer_skills[1] # skill.developer_skills[2]
    /\ RLt(Zero, skill.score) /\ RLt(skill.score, One)
    /\ \E extra \in SkillLabels :
          RLt(skill.score,
              SkillMatchingTool_run(skill.sim, Append(skill.developer_skills, extra),
                                    skill.required_skills))

(***************************************************************************)
(* Properties of the experience scorer (checked under SpecExperience)      *)
(***************************************************************************)
\* s spells the lower-case word w, whatever the case of its letters.
SpellsIgnoringCase(s, w) ==
    /\ Len(s) = Len(w)
    /\ \A i \in DOMAIN s :
          \/ s[i] = w[i]
          \/ \E k \in DOMAIN UpperChars : s[i] = UpperChars[k] /\ w[i] = LowerChars[k]

\* The ordinal of a label among the given words for levels 1..4, 2 if none.
Ordinal(label, words) ==
    IF \E n \in DOMAIN words : SpellsIgnoringCase(label, words[n])
    THEN CHOOSE n \in DOMAIN words : SpellsIgnoringCase(label, words[n])
    ELSE 2

LevelGap(developer_experience, bounty_difficulty) ==
    Abs(Ordinal(developer_experience, <<junior, mid, senior, expert>>)
        - Ordinal(bounty_difficulty, <<easy, medium, hard, expert>>))

\* 0.7 + 0.3 * min(1, reputation_score / 10)
ReputationMultiplier(reputation_score) ==
    RAdd(<<7, 10>>, RMul(<<3, 10>>, RMin(One, RDiv(reputation_score, Int2Rat(10)))))

\* C6 (as claimed): the experience score is 1.0 whenever the two labels map to
\* the same ordinal level, for every reputation_score >= 0.
C6_EqualLevelsScoreOne ==
    (experience.done
        /\ LevelGap(experience.developer_experience, experience.bounty_difficulty) = 0)
    => experience.score = One

\* C6 (amended): for equal ordinal levels the experience score is
\* 0.7 + 0.3*min(1, reputation_score/10), which is 1.0 exactly when
\* reputation_score >= 10; and for a fixed reputation the score decreases
\* strictly as |level_diff| grows from 0 to 3.
C6_EqualLevelsScoreByReputation ==
    experience.done =>
        LET gap == LevelGap(experience.developer_experience, experience.bounty_difficulty)
            rep == experience.reputation_score
        IN  /\ gap = 0 =>
                  /\ experience.score = ReputationMultiplier(rep)
                  /\ experience.score = One <=> RGe(rep, Int2Rat(10))
            /\ \A d \in ExperienceLabels, b \in DifficultyLabels :
                  LevelGap(d, b) > gap =>
                      RLt(ExperienceMatchingTool_run(d, b, rep), experience.score)

\* C6 witness: equal levels under a reputation below 10 (a score below 1), with
\* a pair of labels three levels apart to compare with.
C6_Witness ==
    /\ experience.done
    /\ LevelGap(experience.developer_experience, experience.bounty_difficulty) = 0
    /\ RLt(experience.reputation_score, Int2Rat(10))
    /\ RLt(experience.score, One)
    /\ \E d \in ExperienceLabels, b \in DifficultyLabels : LevelGap(d, b) = 3

\* C7: the experience score equals
\* max(0, 1 - 0.25*|level_diff|) * (0.7 + 0.3*min(1, reputation_score/10)),
\* the developer's label read case-insensitively as junior=1, mid=2, senior=3,
\* expert=4 and the bounty's as easy=1, medium=2, hard=3, expert=4, any other
\* label as 2; the score lies in [0,1].
C7_ExperienceScoreFormula ==
    experience.done =>
        LET gap == LevelGap(experience.developer_experience, experience.bounty_difficulty)
            base == RMax(Zero, RSub(One, Rat(gap, 4)))
        IN  /\ experience.score =
                  RMul(base, ReputationMultiplier(experience.reputation_score))
            /\ InUnit(experience.score)

\* C7 witness: a developer label in capitals below the bounty's level, with a
\* reputation above 10.
C7_Witness ==
    /\ experience.done
    /\ experience.developer_experience = <<"J", "u", "n", "i", "o", "r">>
    /\ experience.bounty_difficulty = <<"E", "X", "P", "E", "R", "T">>
    /\ RLt(Int2Rat(10), experience.reputation_score)
    /\ experience.score = <<1, 4>>

(***************************************************************************)
(* Properties of the availability scorer (checked under SpecAvailability)  *)
(***************************************************************************)
\* C8: the availability score is exactly 0.5 when the developer's weekly
\* hours or the bounty's estimated hours is absent, whatever the deadline
\* and the workload count are.
C8_AbsentHoursScoreHalf ==
    (availability.done
        /\ (availability.developer_hours = None \/ availability.estimated_hours = None))
    => availability.result = Returned(<<1, 2>>)

\* C8 witness: the estimated hours are absent, the developer's hours are not,
\* the deadline is past and the developer has a workload.
C8_Witness ==
    /\ availability.done
    /\ availability.estimated_hours = None
    /\ availability.developer_hours # None
    /\ availability.developer_hours[1] > 0
    /\ availability.deadline.kind = "naive" /\ availability.deadline.days < 0
    /\ availability.active_bounties > 0
    /\ availability.result = Returned(<<1, 2>>)

\* C9: for every hours value (absent or >= 0), every deadline and every
\* workload count >= 0 the availability scorer returns a number in [0,1]
\* and does not raise.
C9_AvailabilityTotalAndBounded ==
    availability.done =>
        /\ ~availability.result.raised
        /\ InUnit(availability.result.value)

\* C9 witness: zero estimated hours against a developer with hours, and a
\* deadline that is already past.
C9_Witness ==
    /\ availability.done
    /\ availability.estimated_hours = Some(0)
    /\ availability.developer_hours # None
    /\ availability.developer_hours[1] > 0
    /\ availability.deadline.kind = "naive" /\ availability.deadline.days < 0
    /\ ~availability.result.raised

\* required = estimated_hours / max(1, days_until_deadline/7)
Required(estimated_hours, deadline) ==
    LET weeks == Rat(days_until_deadline(deadline), 7)
    IN  RDiv(Int2Rat(estimated_hours), IF RLt(One, weeks) THEN weeks ELSE One)

\* available = developer_hours * max(0.1, 1 - 0.2*active_count)
Available(developer_hours, active_count) ==
    LET f == RSub(One, Rat(2 * active_count, 10))
    IN  RMul(Int2Rat(developer_hours), IF RLt(f, <<1, 10>>) THEN <<1, 10>> ELSE f)

\* 1 when required <= available, available/required otherwise.
ScoreByHours(required, available) ==
    IF RLe(required, available) THEN One ELSE RDiv(available, required)

OwnDays(deadline) ==
    IF deadline.kind = "malformed" THEN 30 ELSE deadline.days

\* C11: a deadline that cannot be processed is not fatal and is scored as a
\* deadline 30 days away, while every well-formed deadline is scored from
\* its own number of remaining days.
C11_DeadlineOwnDaysOrThirty ==
    (availability.done
        /\ Truthy(availability.developer_hours) /\ Truthy(availability.estimated_hours))
    => LET weeks == Rat(OwnDays(availability.deadline), 7)
           required == RDiv(Int2Rat(availability.estimated_hours[1]),
                            IF RLt(One, weeks) THEN weeks ELSE One)
           available == Available(availability.developer_hours[1],
                                  availability.active_bounties)
       IN  /\ ~availability.result.raised
           /\ availability.result.value = ScoreByHours(required, available)

(***************************************************************************)
(* Properties of one match (checked under SpecMatching)                    *)
(***************************************************************************)
\* C12: for every developer/bounty pair the match is constructed without a
\* range error, its compatibility_score is 0.4*skill + 0.3*experience +
\* 0.3*availability of its sub-scores, and each of its bounded fields lies
\* in [0,1].
C12_MatchWeightedAndBounded ==
    (matching.op = "calculate_match" /\ matching.done)
    => /\ ~matching.result.raised
       /\ LET m == matching.result.value
          IN  /\ m.compatibility_score =
                     RAdd(RAdd(RMul(<<4, 10>>, m.skill_match_score),
                               RMul(<<3, 10>>, m.experience_match_score)),
                          RMul(<<3, 10>>, m.availability_match_score))
              /\ \A f \in BoundedFields : RLe(Zero, m[f]) /\ RLe(m[f], One)

\* min(1, c * (0.5 + 0.3*success_rate + 0.2*min(1, reputation_score/10)))
SuccessProbabilityFormula(c, success_rate, reputation_score) ==
    LET tenth == RDiv(reputation_score, Int2Rat(10))
        capped == IF RLt(One, tenth) THEN One ELSE tenth
        p == RMul(c, RAdd(<<1, 2>>, RAdd(RMul(<<3, 10>>, success_rate),
                                         RMul(<<2, 10>>, capped))))
    IN  IF RLt(One, p) THEN One ELSE p

\* C13: for compatibility_score and success_rate in [0,1] and
\* reputation_score >= 0 the success probability is
\* min(1, c*(0.5 + 0.3*success_rate + 0.2*min(1, reputation_score/10))); it
\* never exceeds c and is never below c/2.
C13_SuccessProbabilityFormula ==
    (matching.op = "success_probability" /\ matching.done)
    => LET c == matching.compatibility_score
       IN  /\ matching.result =
                  SuccessProbabilityFormula(c, matching.developer.success_rate,
                                            matching.developer.reputation_score)
           /\ RLe(matching.result, c)
           /\ RLe(RDiv(c, Int2Rat(2)), matching.result)

\* C13 witness: a positive compatibility score, a reputation above 10 (the
\* cap of the reputation factor acts), a success rate strictly inside (0,1),
\* and a probability strictly between c/2 and c.
C13_Witness ==
    /\ matching.op = "success_probability" /\ matching.done
    /\ RLt(Zero, matching.compatibility_score)
    /\ RLt(Int2Rat(10), matching.developer.reputation_score)
    /\ RLt(Zero, matching.developer.success_rate)
    /\ RLt(matching.developer.success_rate, One)
    /\ RLt(matching.result, matching.compatibility_score)
    /\ RLt(RDiv(matching.compatibility_score, Int2Rat(2)), matching.result)

(***************************************************************************)
(* Properties of the confidence tiers (checked under SpecConfidence)       *)
(***************************************************************************)
\* The tiers in ascending order, and the place of a tier in that order.
Tiers == <<"low", "medium", "high", "very_high">>

TierRank(tier) == CHOOSE i \in 1..4 : Tiers[i] = tier

\* The tier of a combined score: one step up for every threshold reached.
TierOf(score, thresholds) ==
    Tiers[1 + Cardinality({t \in thresholds : RLe(t, score)})]

\* The combined score of the match path and of the quality path.
MatchCombined(compatibility_score, success_probability) ==
    RMul(<<1, 2>>, RAdd(compatibility_score, success_probability))

DepthFactor(file_count) ==
    IF file_count >= 10 THEN One ELSE IF file_count >= 5 THEN <<9, 10>> ELSE <<8, 10>>

QualityCombined(overall_score, file_count) == RMul(overall_score, DepthFactor(file_count))

\* C14: the confidence tier is fixed by the combined score and its
\* thresholds, a score on a threshold getting the higher tier, and never
\* decreases when the combined score grows: the mean of compatibility_score
\* and success_probability with 0.8/0.65/0.5 on the match path, overall_score
\* times the depth factor with 85/70/55 on the quality path.
C14_TierByThresholdsMonotone ==
    /\ (confidence.op = "match" /\ confidence.done)
       => LET combined == MatchCombined(confidence.compatibility_score,
                                        confidence.success_probability)
          IN  /\ confidence.result = TierOf(combined, {<<4, 5>>, <<13, 20>>, <<1, 2>>})
              /\ \A c \in ScoreGrid, s \in ScoreGrid :
                    RLe(combined, MatchCombined(c, s))
                    => TierRank(determine_confidence_level(c, s))
                           >= TierRank(confidence.result)
    /\ (confidence.op = "quality" /\ confidence.done)
       => LET combined == QualityCombined(confidence.metrics.overall_score,
                                          confidence.file_count)
          IN  /\ confidence.result =
                     TierOf(combined, {Int2Rat(85), Int2Rat(70), Int2Rat(55)})
              /\ \A o \in OverallScores, n \in 0..MaxFiles :
                    RLe(combined, QualityCombined(o, n))
                    => TierRank(QualityAssessmentAgent_determine_confidence_level(
                                    [overall_score |-> o], n))
                           >= TierRank(confidence.result)

\* C14 witness: a quality assessment of 5 to 9 files whose overall score
\* times 0.9 is exactly the threshold 70, rated high.
C14_Witness ==
    /\ confidence.op = "quality" /\ confidence.done
    /\ confidence.file_count >= 5 /\ confidence.file_count < 10
    /\ RMul(confidence.metrics.overall_score, <<9, 10>>) = Int2Rat(70)
    /\ confidence.result = "high"

(***************************************************************************)
(* Properties of the explanation (checked under SpecMatching)              *)
(***************************************************************************)
\* The templates of each dimension, for the bands high, medium and low.
ExplanationTemplates ==
    [skill |->
        <<"Excellent skill match with strong expertise in required technologies.",
          "Good skill alignment with most required technologies covered.",
          "Partial skill match - may require additional learning or collaboration.">>,
     experience |->
        <<"Experience level perfectly matches bounty difficulty.",
          "Suitable experience level for this bounty complexity.",
          "Experience level may not fully align with bounty requirements.">>,
     availability |->
        <<"Excellent availability to meet project timeline.",
          "Adequate availability with manageable timeline.",
          "Limited availability may require timeline adjustments.">>,
     overall |->
        <<"Highly recommended match with strong success potential.",
          "Good match with reasonable success probability.",
          "Consider alternative matches or provide additional support.">>]

\* The band of a score: 1 high (>= 0.8), 2 medium (>= 0.6), 3 low.
Band(score) ==
    IF RLe(<<8, 10>>, score) THEN 1 ELSE IF RLe(<<6, 10>>, score) THEN 2 ELSE 3

\* The four fragments in the order skill, experience, availability, overall,
\* with one space between neighbours.
ExplanationOf(skill_score, experience_score, availability_score, compatibility_score) ==
    ExplanationTemplates.skill[Band(skill_score)] \o " "
        \o ExplanationTemplates.experience[Band(experience_score)] \o " "
        \o ExplanationTemplates.availability[Band(availability_score)] \o " "
        \o ExplanationTemplates.overall[Band(compatibility_score)]

\* C15: the explanation is the four fragments skill, experience,
\* availability, overall, joined by single spaces, each taken from its
\* dimension's templates by the bands >= 0.8, >= 0.6, else; it depends on the
\* four scores only, also inside a match of any developer and bounty.
C15_ExplanationByBands ==
    /\ (matching.op = "explanation" /\ matching.done)
       => matching.result =
              ExplanationOf(matching.skill_score, matching.experience_score,
                            matching.availability_score, matching.compatibility_score)
    /\ (matching.op = "calculate_match" /\ matching.done /\ ~matching.result.raised)
       => LET m == matching.result.value
          IN  m.explanation =
                  ExplanationOf(m.skill_match_score, m.experience_match_score,
                                m.availability_match_score, m.compatibility_score)

\* C15 witness: scores on both band edges (skill exactly 0.8, experience
\* exactly 0.6) and in the low band, with the text they select.
C15_Witness ==
    /\ matching.op = "explanation" /\ matching.done
    /\ matching.skill_score = <<4, 5>>
    /\ matching.experience_score = <<3, 5>>
    /\ RLt(matching.availability_score, <<3, 5>>)
    /\ matching.compatibility_score = <<7, 10>>
    /\ matching.result =
          "Excellent skill match with strong expertise in required technologies. "
              \o "Suitable experience level for this bounty complexity. "
              \o "Limited availability may require timeline adjustments. "
              \o "Good match with reasonable success probability."

(***************************************************************************)
(* Properties of the code analysis (checked under SpecAnalysis)            *)
(***************************************************************************)
\* The analysis of the code tool in a finished step.
CodeAnalysisDone ==
    IF analysis.op = "assess" THEN analysis.code_analysis ELSE analysis.result

\* The request took the Python path.
OnPythonPath == analysis.done /\ LowerStr(analysis.language) = "python"

\* A security issue of severity high or critical whose description names
\* the word.
SevereIssueNaming(issues, word) ==
    \E i \in DOMAIN issues :
        /\ issues[i].type = "security"
        /\ issues[i].severity \in {"high", "critical"}
        /\ Contains(issues[i].description, word)

\* C16: for every Python source text that contains eval(, parseable or not,
\* the analyzer emits a security issue of severity high or critical for it,
\* counts at least one security issue, and the derived security_score is at
\* most 80; exec(, the query-injection pattern and the hardcoded-secret
\* pattern are reported independently of parse success as well.
C16_ScansIndependentOfParsing ==
    OnPythonPath
    => /\ Contains(analysis.code, "eval(")
          => /\ SevereIssueNaming(CodeAnalysisDone.issues, "eval()")
             /\ CodeAnalysisDone.metrics.security_issues >= 1
             /\ analysis.op = "assess"
                => /\ ~analysis.result.raised
                   /\ RLe(analysis.result.value.metrics.security_score, Int2Rat(80))
       /\ Contains(analysis.code, "exec(")
          => SevereIssueNaming(CodeAnalysisDone.issues, "exec()")
       /\ SqlInjectionPattern(analysis.code)
          => SevereIssueNaming(CodeAnalysisDone.issues, "SQL injection")
       /\ HardcodedSecretPattern(analysis.code)
          => \E i \in DOMAIN CodeAnalysisDone.issues :
                /\ CodeAnalysisDone.issues[i].type = "security"
                /\ Contains(CodeAnalysisDone.issues[i].description, "hardcoded secret")

Occurrences(text, pattern) ==
    Cardinality({i \in 1..Len(text) : StartsAt(text, i, pattern)})

\* Branching constructs of a text, counted by their keywords: conditionals,
\* loops, exception handlers and boolean combinations.
BranchingConstructs(code) ==
    Occurrences(code, "if ") + Occurrences(code, "while ") + Occurrences(code, "for ")
        + Occurrences(code, "except ") + Occurrences(code, " and ")
        + Occurrences(code, " or ")

\* min(10, n/d)
Capped(n, d) == IF n >= 10 * d THEN Int2Rat(10) ELSE Rat(n, d)

\* The analyzer a tag selects, ignoring case.
PathOf(language) ==
    IF LowerStr(language) = "python" THEN "python"
    ELSE IF LowerStr(language) = "javascript" \/ LowerStr(language) = "typescript"
    THEN "javascript"
    ELSE IF LowerStr(language) = "solidity" THEN "solidity"
    ELSE "generic"

\* C18: for every source text and language tag the analyzer is selected by
\* the tag without regard to case, and the complexity_score lies in [0,10]
\* and follows the path's formula: Python min(10, (1 + branching
\* constructs)/5) when the text parses, JS/TS min(10, brace_count/10),
\* Solidity min(10, line_count/50), generic min(10, line_count/100).
C18_ComplexityByPath ==
    analysis.done
    => /\ RLe(Zero, CodeAnalysisDone.complexity_score)
       /\ RLe(CodeAnalysisDone.complexity_score, Int2Rat(10))
       /\ (PathOf(analysis.language) = "python" /\ ~ast_parse(analysis.code).raised)
          => CodeAnalysisDone.complexity_score
                 = Capped(1 + BranchingConstructs(analysis.code), 5)
       /\ PathOf(analysis.language) = "javascript"
          => CodeAnalysisDone.complexity_score = Capped(Count(analysis.code, "{"), 10)
       /\ PathOf(analysis.language) = "solidity"
          => CodeAnalysisDone.complexity_score = Capped(LineCount(analysis.code), 50)
       /\ PathOf(analysis.language) = "generic"
          => CodeAnalysisDone.complexity_score = Capped(LineCount(analysis.code), 100)

\* C18 witness: a tag in mixed case takes the JS/TS path, and a text with more
\* than 100 braces has its complexity capped at 10.
C18_Witness ==
    /\ analysis.done /\ analysis.op = "analyze"
    /\ analysis.language = "TypeScript"
    /\ Count(analysis.code, "{") > 100
    /\ analysis.result.complexity_score = Int2Rat(10)
    /\ analysis.result.metrics.lines_of_code = 1

(***************************************************************************)
(* Properties of the documentation analysis (checked under                 *)
(* SpecDocumentation)                                                      *)
(***************************************************************************)
\* comment_lines / (comment_lines + non_blank_code_lines), 0 for a text
\* without a non-blank line.
CommentRatio(comment_lines, code_lines) ==
    IF comment_lines + code_lines = 0
    THEN Zero
    ELSE Rat(comment_lines, comment_lines + code_lines)

\* C19: comment_ratio = comment_lines / (comment_lines + non_blank_code_lines),
\* blank lines ignored, and 0 only when the text has no non-blank line; it
\* lies in [0,1], and a medium documentation issue is emitted exactly when
\* it is below 0.1.
C19_CommentRatioOfNonBlankLines ==
    (documentation.op = "run" /\ documentation.done)
    => LET ratio == CommentRatio(
                        LinesOfClass(documentation.code, LineStarts(documentation.code),
                                     "comment"),
                        LinesOfClass(documentation.code, LineStarts(documentation.code),
                                     "code"))
       IN  /\ documentation.result.comment_ratio = ratio
           /\ RLe(Zero, documentation.result.comment_ratio)
           /\ RLe(documentation.result.comment_ratio, One)
           /\ RLt(ratio, <<1, 10>>)
              <=> \E i \in DOMAIN documentation.result.issues :
                     /\ documentation.result.issues[i].type = "documentation"
                     /\ documentation.result.issues[i].severity = "medium"

\* The keyword groups of a README and their awards, by the words of
\* ReadmeWords that belong to each group.
ReadmeGroups ==
    {[keywords |-> {"Installation", "SETUP"}, award |-> 20],
     [keywords |-> {"usage", "Example"}, award |-> 20],
     [keywords |-> {"API", "documentation"}, award |-> 15],
     [keywords |-> {"Contributing"}, award |-> 10],
     [keywords |-> {"License"}, award |-> 10],
     [keywords |-> {"tests"}, award |-> 10]}

GroupPresent(group, words) == \E i \in words : ReadmeWords[i] \in group.keywords

RECURSIVE SumOfAwards(_)
SumOfAwards(groups) ==
    IF groups = {} THEN 0
    ELSE LET group == CHOOSE g \in groups : TRUE
         IN  group.award + SumOfAwards(groups \ {group})

\* C20: readme_score is the sum of the awards of the keyword groups present
\* (20, 20, 15, 10, 10, 10), each group counted once however many of its
\* keywords occur, plus 15 when the README is longer than 500 characters;
\* it lies in [0,100], and an empty README scores 0.
C20_ReadmeScoreByGroups ==
    (documentation.op = "readme" /\ documentation.done)
    => /\ documentation.result
            = SumOfAwards({g \in ReadmeGroups : GroupPresent(g, documentation.words)})
                + (IF Len(documentation.readme) > 500 THEN 15 ELSE 0)
       /\ documentation.result \in 0..100
       /\ documentation.readme = "" => documentation.result = 0

\* C20 witness: a long README naming both keywords of the first group is
\* scored 20 for the group and 15 for its length.
C20_Witness ==
    /\ documentation.op = "readme" /\ documentation.done
    /\ documentation.words = {1, 2}
    /\ Len(documentation.readme) > 500
    /\ documentation.result = 35

\* C21: documentation_score = min(100, comment_ratio*50 + readme_score*50),
\* it lies in [0,100], and with an empty README it is comment_ratio*50.
C21_DocumentationScoreFormula ==
    (documentation.op = "run" /\ documentation.done)
    => /\ documentation.result.comment_ratio = calculate_comment_ratio(documentation.code)
       /\ documentation.result.readme_score = analyze_readme(documentation.readme_content)
       /\ documentation.result.documentation_score
            = RMin(Int2Rat(100),
                   RAdd(RMul(documentation.result.comment_ratio, Int2Rat(50)),
                        Int2Rat(documentation.result.readme_score * 50)))
       /\ RLe(Zero, documentation.result.documentation_score)
       /\ RLe(documentation.result.documentation_score, Int2Rat(100))
       /\ documentation.readme_content = ""
          => /\ documentation.result.readme_score = 0
             /\ documentation.result.documentation_score
                  = RMul(calculate_comment_ratio(documentation.code), Int2Rat(50))

\* C21 witness: a text with a comment line and a code line, run with a
\* README that earns one award, is scored at the cap; run with the empty
\* README it is scored 25.
C21_Witness ==
    /\ documentation.op = "run" /\ documentation.done
    /\ documentation.code = "# c\nx = 1"
    /\ \/ /\ documentation.readme_content = "License"
          /\ documentation.result.documentation_score = Int2Rat(100)
       \/ /\ documentation.readme_content = ""
          /\ documentation.result.documentation_score = Int2Rat(25)

\* C29: documentation_score saturates: with a README that earns an award
\* (readme_score >= 10) it is exactly 100 whatever the comment ratio, so
\* its only values are those in [0,50] (README scoring 0) and 100.
C29_DocumentationScoreSaturates ==
    (documentation.op = "run" /\ documentation.done)
    => /\ documentation.result.readme_score >= 10
          => documentation.result.documentation_score = Int2Rat(100)
       /\ documentation.result.readme_score < 10
          => /\ documentation.result.readme_score = 0
             /\ RLe(Zero, documentation.result.documentation_score)
             /\ RLe(documentation.result.documentation_score, Int2Rat(50))

\* C29 witness: a text without comments, run with a README that earns the
\* smallest award, is scored 100.
C29_Witness ==
    /\ documentation.op = "run" /\ documentation.done
    /\ documentation.result.comment_ratio = Zero
    /\ documentation.result.readme_score = 10
    /\ documentation.result.documentation_score = Int2Rat(100)

(***************************************************************************)
(* Properties of the quality metrics (checked under SpecMetrics)           *)
(***************************************************************************)
\* max(0, value)
Floored(value) == IF RLt(value, Zero) THEN Zero ELSE value

\* C22: for issue counts >= 0, complexity in [0,10] and documentation_score
\* in [0,100]: security = max(0, 100 - 20*security_issues), performance =
\* max(0, 100 - 10*complexity), maintainability = max(0, 100 - 8*complexity
\* - 5*style_issues), test_coverage = 70, overall = 0.25*security +
\* 0.20*performance + 0.20*maintainability + 0.20*documentation +
\* 0.15*test_coverage; all six fields lie in [0,100]; with no issue and
\* complexity 0, overall = 75.5 + 0.20*documentation_score.
C22_QualityMetricsFormulas ==
    (analysis.op = "metrics" /\ analysis.done)
    => /\ ~analysis.result.raised
       /\ LET m == analysis.result.value
          IN  /\ m.security_score = Floored(Int2Rat(100 - 20 * analysis.security_issues))
              /\ m.performance_score
                   = Floored(RSub(Int2Rat(100), RMul(Int2Rat(10), analysis.complexity_score)))
              /\ m.maintainability_score
                   = Floored(RSub(RSub(Int2Rat(100),
                                       RMul(Int2Rat(8), analysis.complexity_score)),
                                  Int2Rat(5 * analysis.style_issues)))
              /\ m.documentation_score = analysis.documentation_score
              /\ m.test_coverage_score = Int2Rat(70)
              /\ m.overall_score
                   = RDiv(RAdd(RAdd(RAdd(RAdd(RMul(Int2Rat(25), m.security_score),
                                              RMul(Int2Rat(20), m.performance_score)),
                                         RMul(Int2Rat(20), m.maintainability_score)),
                                    RMul(Int2Rat(20), m.documentation_score)),
                               RMul(Int2Rat(15), m.test_coverage_score)),
                          Int2Rat(100))
              /\ \A f \in DOMAIN m : RLe(Zero, m[f]) /\ RLe(m[f], Int2Rat(100))
              /\ (/\ analysis.security_issues = 0
                  /\ analysis.style_issues = 0
                  /\ analysis.complexity_score = Zero)
                 => m.overall_score
                      = RAdd(<<151, 2>>, RDiv(analysis.documentation_score, Int2Rat(5)))

\* C22 witness: six security issues, four style issues and complexity 10
\* floor the three scores at 0, and with documentation_score 0 the overall
\* score is 0.15*70 = 10.5.
C22_Witness ==
    /\ analysis.op = "metrics" /\ analysis.done
    /\ analysis.security_issues = 6
    /\ analysis.style_issues = 4
    /\ analysis.complexity_score = Int2Rat(10)
    /\ analysis.documentation_score = Zero
    /\ ~analysis.result.raised
    /\ analysis.result.value.security_score = Zero
    /\ analysis.result.value.performance_score = Zero
    /\ analysis.result.value.maintainability_score = Zero
    /\ analysis.result.value.overall_score = <<21, 2>>

(***************************************************************************)
(* Properties of the repository assessment (checked under SpecRepository)  *)
(***************************************************************************)
\* The code files of a file map, in order.
CodeFilesOf(files) ==
    LET IsCode(file) == is_code_file(file.filename)
    IN  SelectSeq(files, IsCode)

\* The complexity scores of the files, one by one.
ComplexityScores(files, language) ==
    [i \in DOMAIN files |-> CodeAnalysisTool_run(files[i].content, language).complexity_score]

\* C30: files that are not code files do not influence the code analysis:
\* the aggregated issues, issue counts and complexity_score are those of the
\* file map without them, and the aggregated complexity_score is the mean
\* of the complexity scores of the analyzed code files.
C30_NonCodeFilesWithoutInfluence ==
    (analysis.op = "repository" /\ analysis.done)
    => /\ analysis.code_analysis
            = analyze_code_files(CodeFilesOf(analysis.files), analysis.language)
       /\ CodeFilesOf(analysis.files) # <<>>
          => analysis.code_analysis.complexity_score
               = Mean(ComplexityScores(CodeFilesOf(analysis.files), analysis.language))

(***************************************************************************)
(* Properties of the request wrapper (checked under SpecService)           *)
(***************************************************************************)
\* The last call was answered by the quality assessment agent with an
\* assessment.
QualityAssessed ==
    /\ agent.op = "service" /\ agent.name = "quality_assessment"
    /\ agent.last.kind = "call" /\ agent.last.reached
    /\ ~agent.last.internal.raised

\* C24: the confidence_level process_request returns for a quality
\* assessment is the tier _determine_confidence_level derived for it; the
\* wrapper does not replace it.
C24_ConfidenceLevelKept ==
    QualityAssessed
    => /\ ~agent.last.outcome.raised
       /\ agent.last.outcome.value.confidence_level
            = agent.last.internal.value.confidence_level
       /\ \E file_count \in 1..2 :
             agent.last.internal.value.confidence_level
               = QualityAssessmentAgent_determine_confidence_level(
                     agent.last.internal.value.metrics, file_count)

\* C25: when the internal processing of a request raises an error E,
\* process_request raises that same error E to its caller; the logging of
\* the handler neither swallows E nor replaces it.
C25_InternalErrorPropagated ==
    (/\ agent.op = "service"
     /\ agent.last.kind = "call" /\ agent.last.reached
     /\ agent.last.internal.raised)
    => agent.last.outcome = agent.last.internal

\* C26: every call of process_request since the last reset_metrics is
\* recorded exactly once: successful_requests counts the calls that
\* returned, failed_requests the calls that raised (failures of the lazy
\* initialization included), and total_requests is their sum.
C26_EveryCallRecordedOnce ==
    agent.op = "service"
    => /\ agent.metrics.successful_requests = agent.returned
       /\ agent.metrics.failed_requests = agent.raised
       /\ agent.metrics.total_requests
            = agent.metrics.successful_requests + agent.metrics.failed_requests

\* The request names no language: the key is missing or holds None.
WithoutLanguage(request) == Get(request, "language", None) = None

\* C28: a quality assessment request with code_content (or repository_url)
\* and without language is analyzed as python: it is processed by the
\* Python analyzer and returns metrics instead of failing.
C28_MissingLanguageMeansPython ==
    (/\ agent.op = "service" /\ agent.name = "quality_assessment"
     /\ agent.last.kind = "call" /\ agent.last.reached
     /\ WithoutLanguage(agent.last.request)
     /\ ~Truthy(Get(agent.last.request, "solution_id", None))
     /\ \/ TruthyStr(Get(agent.last.request, "repository_url", None))
        \/ TruthyStr(Get(agent.last.request, "code_content", None)))
    => /\ ~agent.last.internal.raised
       /\ ~agent.last.outcome.raised
       /\ "metrics" \in DOMAIN agent.last.outcome.value
       /\ IF TruthyStr(Get(agent.last.request, "repository_url", None))
          THEN \E repo_data \in FetchedRepositories :
                  agent.last.internal
                    = assess_repository_quality(repo_data, "python", TRUE)
          ELSE agent.last.internal
                 = assess_code_quality(agent.last.request.code_content[1], "python", TRUE)

(***************************************************************************)
(* Properties of concurrent calls (checked under SpecTasks)                *)
(***************************************************************************)
\* Task t has ended a call of process_request that reached the processing
\* of its request.
Processed(t) ==
    /\ agent.tasks[t].pc = "done"
    /\ "internal" \in DOMAIN agent.tasks[t]

\* What the request of task t returns when it runs alone on the snapshots.
AloneResult(t) ==
    BountyMatchingAgent_process_request_internal(
        ServiceSim, agent.tasks[t].call.request, agent.snapshot.bounty,
        agent.snapshot.developer)

\* C23: requests are isolated: in every interleaving of concurrent ranking
\* or matching requests on the same agent, each request returns exactly the
\* ranked list it returns when run alone on the same snapshots.
C23_RequestsIsolated ==
    agent.op = "tasks"
    => \A t \in Tasks :
          Processed(t)
          => /\ agent.tasks[t].internal = AloneResult(t)
             /\ agent.tasks[t].outcome = Wrapped(agent.name, AloneResult(t))

\* C23 witness: two ranking requests of different routes, started on the
\* agent before it was initialized (each ran the setup, so neither waited
\* for the other to end), have both ended with their ranked lists.
C23_Witness ==
    /\ agent.op = "tasks"
    /\ Processed(1) /\ Processed(2)
    /\ agent.tasks[1].ran_tools /\ agent.tasks[2].ran_tools
    /\ Route(agent.tasks[1].call.request) = "_find_developers_for_bounty"
    /\ Route(agent.tasks[2].call.request) = "_find_bounties_for_developer"
    /\ ~agent.tasks[1].internal.raised /\ ~agent.tasks[2].internal.raised
    /\ agent.tasks[1].internal.value.total_matches > 0
    /\ agent.tasks[1].internal # agent.tasks[2].internal

\* C27: an agent is set up at most once: in every interleaving of
\* concurrent initialize, get_agent and process_request calls on an agent
\* that is not initialized, at most one of them executes _setup_tools and
\* _setup_executor, and is_initialized is true only after both steps were
\* completed by one call.
C27_SetUpAtMostOnce ==
    agent.op = "tasks"
    => /\ Cardinality({t \in Tasks : agent.tasks[t].ran_tools}) <= 1
       /\ Cardinality({t \in Tasks : agent.tasks[t].ran_executor}) <= 1
       /\ agent.is_initialized
          => \E t \in Tasks :
                /\ agent.tasks[t].ran_tools /\ agent.tasks[t].ran_executor
                /\ agent.tasks[t].pc \notin {"setup_tools", "setup_executor"}

====
